---- MODULE Spec2Model ----
(***************************************************************************)
(* A model of the Connections puzzle solver: the game state machine        *)
(* (rsallms/game.py, and its earlier revision rsa-llms/game.py), the       *)
(* Metrics accumulator (rsallms/metrics.py) and the play drivers           *)
(* (solvers/solver.py, solvers/gvc.py, solvers/snap_gvc.py) and the        *)
(* exhaustive search of solvers/rsa.py.                                    *)
(***************************************************************************)
EXTENDS Integers, Sequences, FiniteSets, TLC

VARIABLES
    og_groups,          \* Connections._og_groups: the original snapshot
    categories,         \* Connections.categories: the active categories
    group_size,         \* Connections.group_size
    max_strikes,        \* Connections._max_strikes
    starting_strikes,   \* the starting_strikes argument of the constructor
    current_strikes,    \* Connections.current_strikes
    last,               \* the last call made on the game and what it returned
    pc,                 \* where the play driver stands
    solver_kind,        \* which Solver.guess the driver was given
    metrics,            \* the Metrics object of the play-through
    previous_guesses,   \* play's set of failed guesses
    iterations,         \* loop iterations of play that submitted a guess
    attempt,            \* the round counter of the guess in progress
    returned,           \* what guess / snap_guess handed back to play, or the error it raised
    gvc_guesses,        \* GVCSolver.guesses
    sgvc,               \* the fields of the SGVCSolver (of the GVCSolver, for gvc_2.py)
    error_counter,      \* SGVCSolver.play's error_counter
    wrong_counter,      \* SGVCSolver.play's wrong_counter
    try_counter,        \* the try_counter of gvc_2.py's GVCSolver.play
    rsa,                \* the locals of RSASolver.guess (solvers/rsa.py)
    endpoint,           \* a call of Endpoint.respond in progress (rsallms/endpoints.py)
    flow                \* the fields of a StateFlowGame (rsallms/stateflow.py)

gameVars == <<og_groups, categories, group_size, max_strikes, starting_strikes,
              current_strikes, last>>

playVars == <<pc, solver_kind, metrics, previous_guesses, iterations>>

agentVars == <<attempt, returned, gvc_guesses, sgvc, error_counter, wrong_counter, try_counter, rsa,
              endpoint, flow>>

vars == <<gameVars, playVars, agentVars>>

-----------------------------------------------------------------------------
(* Bounds of the model *)

\* the largest max_strikes a game is constructed with
MaxStrikes == 3

\* the retry budget of a negotiation turn (SGVCSolver.max_retries, and the
\* local max_retries of GVCSolver.guess); the source sets it to 15
max_retries == 2

-----------------------------------------------------------------------------
(* Python helpers *)

\* set(list)
ToSet(s) == {s[i] : i \in DOMAIN s}

\* list.pop(i) leaves this list behind (i is 1-based here)
RemoveAt(s, i) == [j \in 1..(Len(s) - 1) |-> IF j < i THEN s[j] ELSE s[j + 1]]

\* list.index(x): the first position holding a value equal to x (1-based), 0 if none
IndexOf(s, x) ==
    IF \E i \in DOMAIN s : s[i] = x
    THEN CHOOSE i \in DOMAIN s : s[i] = x /\ \A j \in 1..(i - 1) : s[j] # x
    ELSE 0

\* sum(1 for x in s if P(x)) over a list of booleans
CountTrue(s) == Cardinality({i \in DOMAIN s : s[i]})

-----------------------------------------------------------------------------
(* Boards *)

Category(level, group, members) ==
    [level |-> level, group |-> group, members |-> members]

\* load_daily_board
DailyBoard ==
    << Category(0, "WET WEATHER", <<"HAIL", "RAIN", "SLEET", "SNOW">>),
       Category(1, "NBA TEAMS", <<"BUCKS", "HEAT", "JAZZ", "NETS">>),
       Category(2, "KEYBOARD KEYS", <<"OPTION", "RETURN", "SHIFT", "TAB">>),
       Category(3, "PALINDROMES", <<"KAYAK", "LEVEL", "MOM", "RACECAR">>) >>

\* a board whose first two categories hold the same four words: the constructor
\* does not check that categories are disjoint
OverlapBoard ==
    << Category(0, "WET WEATHER", <<"HAIL", "RAIN", "SLEET", "SNOW">>),
       Category(1, "COLD THINGS", <<"SNOW", "SLEET", "RAIN", "HAIL">>),
       Category(2, "KEYBOARD KEYS", <<"OPTION", "RETURN", "SHIFT", "TAB">>) >>

\* a board of two categories
SmallBoard ==
    << Category(0, "NBA TEAMS", <<"BUCKS", "HEAT", "JAZZ", "NETS">>),
       Category(1, "PALINDROMES", <<"KAYAK", "LEVEL", "MOM", "RACECAR">>) >>

Boards == {DailyBoard, OverlapBoard, SmallBoard}

\* a list of categories whose second category has three members
RaggedBoard ==
    << Category(0, "WET WEATHER", <<"HAIL", "RAIN", "SLEET", "SNOW">>),
       Category(1, "NBA TEAMS", <<"BUCKS", "HEAT", "JAZZ">>) >>

\* a board of two categories of three members
TrioBoard ==
    << Category(0, "WET WEATHER", <<"HAIL", "RAIN", "SLEET">>),
       Category(1, "NBA TEAMS", <<"BUCKS", "HEAT", "JAZZ">>) >>

\* the category lists and group sizes the constructor is called with
ConstructorBoards == Boards \cup {RaggedBoard, TrioBoard}

GroupSizes == {3, 4}

\* the word lists handed to category_guess_check: every category's members, a
\* category in another order, one in lower case, one with a repeated word, near
\* misses, a word that is on no board, a short list and the empty list
GuessInputs ==
    { DailyBoard[i].members : i \in DOMAIN DailyBoard } \cup
    { <<"SNOW", "SLEET", "RAIN", "HAIL">>,
      <<"hail", "rain", "sleet", "snow">>,
      <<"HAIL", "HAIL", "RAIN", "SLEET", "SNOW">>,
      <<"HAIL", "RAIN", "SLEET", "KAYAK">>,
      <<"HAIL", "RAIN", "SLEET", "PIZZA">>,
      <<"HAIL", "RAIN", "SLEET">>,
      <<>> }

-----------------------------------------------------------------------------
(* rsallms/game.py *)

\* a matches that accepts any words all found among the members
matches_subset(cat, words) == ToSet(words) \subseteq ToSet(cat.members)

\* Category.matches
matches(cat, words) == ToSet(words) = ToSet(cat.members)

\* Connections.all_words
all_words ==
    LET Flat[i \in 0..Len(categories)] ==
            IF i = 0 THEN <<>> ELSE Flat[i - 1] \o categories[i].members
    IN Flat[Len(categories)]

\* Connections.is_solved
is_solved == Len(categories) = 0

\* Game.is_over, the base class's test, which ignores the categories
is_over_base == current_strikes >= max_strikes

\* Connections.is_over
is_over == current_strikes >= max_strikes \/ is_solved

\* flags that count the removed categories instead of looking for each one
solved_categories_by_count ==
    [i \in DOMAIN og_groups |-> i <= Len(og_groups) - Len(categories)]

\* Connections.solved_categories
solved_categories ==
    [i \in DOMAIN og_groups |-> ~(\E j \in DOMAIN categories : categories[j] = og_groups[i])]

\* the guard written with > in place of >=
StrikesExhausted_gt == current_strikes > max_strikes

\* the guard at the top of category_guess_check
StrikesExhausted == current_strikes >= max_strikes

\* matches.index(True): the first active category that matches, 0 if none
MatchedGroup(words) ==
    IF \E i \in DOMAIN categories : matches(categories[i], words)
    THEN CHOOSE i \in DOMAIN categories :
            /\ matches(categories[i], words)
            /\ \A j \in 1..(i - 1) : ~matches(categories[j], words)
    ELSE 0

\* what a call returns: raised, or a list holding the returned Category (empty for None)
CallResult(op, words, raised, ret) ==
    [op |-> op, words |-> words, raised |-> raised, ret |-> ret]

\* the test at the top of Connections.__init__
AllGroupsSized(board, size) == \A i \in DOMAIN board : Len(board[i].members) = size

\* the constructor raised: there is no Connections object
NoGame ==
    /\ max_strikes = 0
    /\ og_groups = <<>>
    /\ group_size = 0
    /\ categories = <<>>
    /\ current_strikes = 0
    /\ starting_strikes = 0

\* a constructor that does not test the sizes of the groups
NewGame_unchecked(board, size, maxs, start) ==
    /\ max_strikes = maxs
    /\ og_groups = board
    /\ group_size = size
    /\ categories = board
    /\ current_strikes = start
    /\ starting_strikes = start

\* Connections.__init__: ValueError, and no object, unless every group has
\* group_size members
NewGame(board, size, maxs, start) ==
    IF AllGroupsSized(board, size)
    THEN /\ max_strikes = maxs
         /\ og_groups = board
         /\ group_size = size
         /\ categories = board
         /\ current_strikes = start
         /\ starting_strikes = start
    ELSE NoGame

\* a category_guess_check that counts a strike on every call that does not raise
category_guess_check_always_strike(words) ==
    /\ IF StrikesExhausted
       THEN /\ last' = CallResult("guess", words, TRUE, <<>>)
            /\ UNCHANGED <<categories, current_strikes>>
       ELSE IF MatchedGroup(words) = 0
       THEN /\ current_strikes' = current_strikes + 1
            /\ last' = CallResult("guess", words, FALSE, <<>>)
            /\ UNCHANGED categories
       ELSE /\ categories' = RemoveAt(categories, MatchedGroup(words))
            /\ last' = CallResult("guess", words, FALSE, <<categories[MatchedGroup(words)]>>)
            /\ current_strikes' = current_strikes + 1
    /\ UNCHANGED <<og_groups, group_size, max_strikes, starting_strikes>>

\* a category_guess_check that tests the strikes only after finding no match
category_guess_check_late_guard(words) ==
    /\ IF MatchedGroup(words) # 0
       THEN /\ categories' = RemoveAt(categories, MatchedGroup(words))
            /\ last' = CallResult("guess", words, FALSE, <<categories[MatchedGroup(words)]>>)
            /\ UNCHANGED current_strikes
       ELSE IF StrikesExhausted
       THEN /\ last' = CallResult("guess", words, TRUE, <<>>)
            /\ UNCHANGED <<categories, current_strikes>>
       ELSE /\ current_strikes' = current_strikes + 1
            /\ last' = CallResult("guess", words, FALSE, <<>>)
            /\ UNCHANGED categories
    /\ UNCHANGED <<og_groups, group_size, max_strikes, starting_strikes>>

\* a category_guess_check that counts no strike for a wrong guess
category_guess_check_no_strike(words) ==
    /\ IF StrikesExhausted
       THEN /\ last' = CallResult("guess", words, TRUE, <<>>)
            /\ UNCHANGED <<categories, current_strikes>>
       ELSE IF MatchedGroup(words) = 0
       THEN /\ last' = CallResult("guess", words, FALSE, <<>>)
            /\ UNCHANGED <<categories, current_strikes>>
       ELSE /\ categories' = RemoveAt(categories, MatchedGroup(words))
            /\ last' = CallResult("guess", words, FALSE, <<categories[MatchedGroup(words)]>>)
            /\ UNCHANGED current_strikes
    /\ UNCHANGED <<og_groups, group_size, max_strikes, starting_strikes>>

\* Connections.category_guess_check
category_guess_check(words) ==
    /\ IF StrikesExhausted
       THEN /\ last' = CallResult("guess", words, TRUE, <<>>)
            /\ UNCHANGED <<categories, current_strikes>>
       ELSE IF MatchedGroup(words) = 0
       THEN /\ current_strikes' = current_strikes + 1
            /\ last' = CallResult("guess", words, FALSE, <<>>)
            /\ UNCHANGED categories
       ELSE /\ categories' = RemoveAt(categories, MatchedGroup(words))
            /\ last' = CallResult("guess", words, FALSE, <<categories[MatchedGroup(words)]>>)
            /\ UNCHANGED current_strikes
    /\ UNCHANGED <<og_groups, group_size, max_strikes, starting_strikes>>

\* Connections.reset
reset ==
    /\ categories' = og_groups
    /\ current_strikes' = 0
    /\ last' = CallResult("reset", <<>>, FALSE, <<>>)
    /\ UNCHANGED <<og_groups, group_size, max_strikes, starting_strikes>>

-----------------------------------------------------------------------------
(* rsallms/metrics.py *)

total_levels == 4

points_per_correct == 5

\* a similarity of 1, in the unit the model counts similarities in: a number
\* that 1, 2, 3 and 4 divide, so that the running mean of up to four values
\* is exact
SimOne == 2 * 12

\* the normalized similarities cosine_similarity_category may compute
Similarities == {SimOne \div 2, SimOne}

\* Metrics()
Metrics ==
    [solves |-> [i \in 1..total_levels |-> FALSE],
     failed_guesses |-> 0,
     solve_order |-> <<>>,
     points |-> 0,
     hallucinated_words |-> 0,
     category_similarity |-> 0]

\* a failed guess that is not counted
increment_failed_guesses_uncounted(m) == m

\* Metrics.increment_failed_guesses
increment_failed_guesses(m) == [m EXCEPT !.failed_guesses = @ + 1]

\* an add_solve that does not look at the flag of the level
add_solve_unguarded(m, level) ==
    [m EXCEPT !.solves[level + 1] = TRUE,
              !.solve_order = Append(@, level),
              !.points = @ + points_per_correct]

\* an add_solve that puts the level at the front of solve_order
add_solve_prepend(m, level) ==
    IF ~m.solves[level + 1]
    THEN [m EXCEPT !.solves[level + 1] = TRUE,
                   !.solve_order = <<level>> \o @,
                   !.points = @ + points_per_correct]
    ELSE m

\* Metrics.add_solve (level counts from 0)
add_solve(m, level) ==
    IF ~m.solves[level + 1]
    THEN [m EXCEPT !.solves[level + 1] = TRUE,
                   !.solve_order = Append(@, level),
                   !.points = @ + points_per_correct]
    ELSE m

\* Metrics.solve_rate
solve_rate(m) == (CountTrue(m.solves) * 100) \div total_levels

\* Metrics.hallucination_words
hallucination_words(m, guess_word_lst, all_board_words) ==
    [m EXCEPT !.hallucinated_words =
        @ + Cardinality({i \in DOMAIN guess_word_lst :
                            guess_word_lst[i] \notin ToSet(all_board_words)})]

\* Metrics.cosine_similarity_category, for a normalized similarity of x
cosine_similarity_category(m, x) ==
    [m EXCEPT !.category_similarity =
        (((Len(m.solve_order) - 1) * @) + x) \div Len(m.solve_order)]

-----------------------------------------------------------------------------
(* The game driven through its public operations *)

-----------------------------------------------------------------------------
(* solvers/snap_gvc.py: the state of an SGVCSolver and its pure helpers *)

max_conservative_round_errors == 2

\* a threshold of two wrong guesses
max_conservative_wrong_guesses_two == 1 + 1

max_conservative_wrong_guesses == 3

\* the upper-case words of the model in Python's string order; lower-case
\* words sort after them
Vocabulary ==
    <<"BUCKS", "HAIL", "HEAT", "JAZZ", "KAYAK", "LEVEL", "MOM", "NETS", "OPTION",
      "PIZZA", "RACECAR", "RAIN", "RETURN", "SHIFT", "SLEET", "SNOW", "TAB">>

Rank ==
    [w \in ToSet(Vocabulary) \cup {"hail", "rain", "sleet", "snow"} |->
        IF w \in ToSet(Vocabulary)
        THEN CHOOSE i \in DOMAIN Vocabulary : Vocabulary[i] = w
        ELSE Len(Vocabulary) + (CHOOSE i \in 1..4 : <<"hail", "rain", "sleet", "snow">>[i] = w)]

\* word.strip().upper().replace(",", "") on the words a parsed reply can hold
Normalize(w) ==
    CASE w = "hail" -> "HAIL"
      [] w = "rain" -> "RAIN"
      [] w = "sleet" -> "SLEET"
      [] w = "snow" -> "SNOW"
      [] OTHER -> w

NormalizeAll(ws) == [i \in DOMAIN ws |-> Normalize(ws[i])]

\* a < b on lists of strings
GroupLess(a, b) ==
    \/ \E i \in 1..Len(a) :
          /\ i <= Len(b)
          /\ \A j \in 1..(i - 1) : a[j] = b[j]
          /\ Rank[a[i]] < Rank[b[i]]
    \/ /\ Len(a) < Len(b)
       /\ \A j \in 1..Len(a) : a[j] = b[j]

\* sorted(words)
sorted(ws) ==
    LET Ins(t, w) ==
            LET k == Cardinality({j \in DOMAIN t : Rank[t[j]] <= Rank[w]})
            IN SubSeq(t, 1, k) \o <<w>> \o SubSeq(t, k + 1, Len(t))
        F[i \in 0..Len(ws)] == IF i = 0 THEN <<>> ELSE Ins(F[i - 1], ws[i])
    IN F[Len(ws)]

\* SGVCSolver.insertion_sort_list on a list of word groups: each key moves left
\* past the entries it is smaller than
insertion_sort_list(lst) ==
    LET Ins(t, key) ==
            LET k == IF \E j \in DOMAIN t : ~GroupLess(key, t[j])
                     THEN CHOOSE j \in DOMAIN t :
                            /\ ~GroupLess(key, t[j])
                            /\ \A h \in (j + 1)..Len(t) : GroupLess(key, t[h])
                     ELSE 0
            IN SubSeq(t, 1, k) \o <<key>> \o SubSeq(t, k + 1, Len(t))
        F[i \in 0..Len(lst)] == IF i = 0 THEN <<>> ELSE Ins(F[i - 1], lst[i])
    IN F[Len(lst)]

\* deque(maxlen).append: a full buffer drops its leftmost entry
DequeAppend(buf, x, maxlen) ==
    IF Len(buf) >= maxlen THEN Tail(buf) \o <<x>> ELSE buf \o <<x>>

\* SGVCSolver.__init__
NewSGVC ==
    [guesses |-> <<>>,
     guesser_past_understandings |-> <<>>,
     last_guess |-> <<>>,
     rejected_guesses_buffer |-> <<>>,
     prev_validator_feedback_if_rejected |-> <<>>,
     validator_dict |-> <<>>,
     failed_guesses |-> <<>>,
     sorted_failed_guesses |-> <<>>,
     feedback |-> <<>>,
     snap_correct |-> FALSE]

\* the text of the three grounding errors, by rule
NotInRemaining == "Validator Disagrees: Word/s is not in Remaining Words."
WrongSize == "Validator Disagrees: Guess does not contain exactly group_size words."
Repeats == "Validator Disagrees: Guess repeats a previously failed grouping."

\* the zip loop of rule 3: the positions at which the two groups agree
SameWords(sorted_guess, failed) ==
    Cardinality({i \in DOMAIN sorted_guess :
                    i \in DOMAIN failed /\ sorted_guess[i] = failed[i]})

\* a rule 3 that fires as soon as one position agrees with a ledger entry
grounding_check_any_same_word(ledger, guess, remaining_words, size) ==
    LET processed_guess == NormalizeAll(guess)
        processed_remaining_words == NormalizeAll(remaining_words)
        processed_ledger == [i \in DOMAIN ledger |-> NormalizeAll(ledger[i])]
    IN  IF \E i \in DOMAIN processed_guess :
              processed_guess[i] \notin ToSet(processed_remaining_words)
        THEN <<FALSE, NotInRemaining>>
        ELSE IF Len(processed_guess) # size
        THEN <<FALSE, WrongSize>>
        ELSE IF \E i \in DOMAIN processed_ledger :
                   SameWords(sorted(processed_guess), processed_ledger[i]) >= 1
        THEN <<FALSE, Repeats>>
        ELSE <<TRUE, "">>

\* a rule 3 that compares the guess as given, unsorted, with the ledger
grounding_check_unsorted(ledger, guess, remaining_words, size) ==
    LET processed_guess == NormalizeAll(guess)
        processed_remaining_words == NormalizeAll(remaining_words)
        processed_ledger == [i \in DOMAIN ledger |-> NormalizeAll(ledger[i])]
    IN  IF \E i \in DOMAIN processed_guess :
              processed_guess[i] \notin ToSet(processed_remaining_words)
        THEN <<FALSE, NotInRemaining>>
        ELSE IF Len(processed_guess) # size
        THEN <<FALSE, WrongSize>>
        ELSE IF \E i \in DOMAIN processed_ledger :
                   SameWords(processed_guess, processed_ledger[i]) = size
        THEN <<FALSE, Repeats>>
        ELSE <<TRUE, "">>

\* SGVCSolver.grounding_check: <<grounded, error>>
grounding_check(ledger, guess, remaining_words, size) ==
    LET processed_guess == NormalizeAll(guess)
        processed_remaining_words == NormalizeAll(remaining_words)
        processed_ledger == [i \in DOMAIN ledger |-> NormalizeAll(ledger[i])]
    IN  IF \E i \in DOMAIN processed_guess :
              processed_guess[i] \notin ToSet(processed_remaining_words)
        THEN <<FALSE, NotInRemaining>>
        ELSE IF Len(processed_guess) # size
        THEN <<FALSE, WrongSize>>
        ELSE IF \E i \in DOMAIN processed_ledger :
                   SameWords(sorted(processed_guess), processed_ledger[i]) = size
        THEN <<FALSE, Repeats>>
        ELSE <<TRUE, "">>

\* a reset_agents_state that also forgets the accepted groups
reset_agents_state_forgets_guesses(s) ==
    [s EXCEPT !.guesser_past_understandings = <<>>,
              !.last_guess = <<>>,
              !.rejected_guesses_buffer = <<>>,
              !.prev_validator_feedback_if_rejected = <<>>,
              !.validator_dict = <<>>,
              !.feedback = <<>>,
              !.snap_correct = FALSE,
              !.guesses = <<>>]

\* SGVCSolver.reset_agents_state
reset_agents_state(s) ==
    [s EXCEPT !.guesser_past_understandings = <<>>,
              !.last_guess = <<>>,
              !.rejected_guesses_buffer = <<>>,
              !.prev_validator_feedback_if_rejected = <<>>,
              !.validator_dict = <<>>,
              !.feedback = <<>>,
              !.snap_correct = FALSE]

\* SGVCSolver.reset
sgvc_reset(s) ==
    [reset_agents_state(s) EXCEPT !.failed_guesses = <<>>,
                                  !.sorted_failed_guesses = <<>>,
                                  !.guesses = <<>>]

\* dict[key] = value on a dict kept as a list of <<key, value>> in insertion order
DictSet(d, key, value) ==
    IF \E i \in DOMAIN d : d[i][1] = key
    THEN [i \in DOMAIN d |-> IF d[i][1] = key THEN <<key, value>> ELSE d[i]]
    ELSE Append(d, <<key, value>>)

\* if key not in d: d[key] = []; d[key].append(value)
DictAppend(d, key, value) ==
    IF \E i \in DOMAIN d : d[i][1] = key
    THEN [i \in DOMAIN d |-> IF d[i][1] = key THEN <<key, Append(d[i][2], value)>> ELSE d[i]]
    ELSE Append(d, <<key, <<value>>>>)

\* RSASolver.guess has not been called
NoRSA ==
    [word_bank |-> <<>>, group_size |-> 0, proposed |-> <<>>, error_heap |-> <<>>,
     most_correct_guess |-> <<>>]

\* Endpoint.respond has not been called
NoEndpoint == [pc |-> "idle"]

\* no StateFlowGame has been constructed
NoFlow == [state |-> "none"]

\* no agent-backed solver is running
NoAgents ==
    /\ attempt = 0
    /\ returned = <<>>
    /\ gvc_guesses = {}
    /\ sgvc = NewSGVC
    /\ error_counter = 0
    /\ wrong_counter = 0
    /\ try_counter = 0
    /\ rsa = NoRSA
    /\ endpoint = NoEndpoint
    /\ flow = NoFlow

\* no driver is running
NoDriver ==
    /\ pc = "idle"
    /\ solver_kind = "none"
    /\ metrics = Metrics
    /\ previous_guesses = {}
    /\ iterations = 0
    /\ NoAgents

Init ==
    /\ \E board \in Boards, maxs \in 1..MaxStrikes :
         \E start \in 0..(maxs + 1) : NewGame(board, 4, maxs, start)
    /\ last = CallResult("init", <<>>, FALSE, <<>>)
    /\ NoDriver

Guess == \E words \in GuessInputs : category_guess_check(words) /\ UNCHANGED <<playVars, agentVars>>

Reset == reset /\ UNCHANGED <<playVars, agentVars>>

Next == Guess \/ Reset

Spec == Init /\ [][Next]_vars

-----------------------------------------------------------------------------
(* The constructor called with any list of categories and any group size *)

\* the constructor returned an object
GameMade == ~(last.op = "init" /\ last.raised)

InitConstruct ==
    /\ \E board \in ConstructorBoards, size \in GroupSizes, maxs \in 1..MaxStrikes :
         \E start \in 0..maxs :
            /\ NewGame(board, size, maxs, start)
            /\ last = CallResult("init", <<>>, ~AllGroupsSized(board, size), <<>>)
    /\ NoDriver

ConstructGuess == GameMade /\ Guess

ConstructReset == GameMade /\ Reset

NextConstruct == ConstructGuess \/ ConstructReset

SpecConstruct == InitConstruct /\ [][NextConstruct]_vars

-----------------------------------------------------------------------------
(* The game of the earlier revision, rsa-llms/game.py: the constructor keeps *)
(* one list under both names, _og_groups and groups, without copying it     *)

\* Connections.__init__ (rsa-llms): no starting_strikes, no copy
LegacyNewGame(board, size, maxs) ==
    /\ \A i \in DOMAIN board : Len(board[i].members) = size
    /\ max_strikes = maxs
    /\ og_groups = board
    /\ categories = board
    /\ group_size = size
    /\ current_strikes = 0
    /\ starting_strikes = 0

\* Connections.guess (rsa-llms): groups.pop acts on the one list both names denote
legacy_guess(words) ==
    /\ IF StrikesExhausted
       THEN /\ last' = CallResult("guess", words, TRUE, <<>>)
            /\ UNCHANGED <<categories, og_groups, current_strikes>>
       ELSE IF MatchedGroup(words) = 0
       THEN /\ current_strikes' = current_strikes + 1
            /\ last' = CallResult("guess", words, FALSE, <<>>)
            /\ UNCHANGED <<categories, og_groups>>
       ELSE /\ categories' = RemoveAt(categories, MatchedGroup(words))
            /\ og_groups' = categories'
            /\ last' = CallResult("guess", words, FALSE, <<categories[MatchedGroup(words)]>>)
            /\ UNCHANGED current_strikes
    /\ UNCHANGED <<group_size, max_strikes, starting_strikes>>

\* Connections.reset (rsa-llms)
legacy_reset ==
    /\ categories' = og_groups
    /\ current_strikes' = 0
    /\ last' = CallResult("reset", <<>>, FALSE, <<>>)
    /\ UNCHANGED <<og_groups, group_size, max_strikes, starting_strikes>>

InitLegacy ==
    /\ \E board \in Boards, maxs \in 1..MaxStrikes : LegacyNewGame(board, 4, maxs)
    /\ last = CallResult("init", <<>>, FALSE, <<>>)
    /\ NoDriver

LegacyGuess == \E words \in GuessInputs : legacy_guess(words) /\ UNCHANGED <<playVars, agentVars>>

LegacyReset == legacy_reset /\ UNCHANGED <<playVars, agentVars>>

NextLegacy == LegacyGuess \/ LegacyReset

SpecLegacy == InitLegacy /\ [][NextLegacy]_vars

-----------------------------------------------------------------------------
(* solvers/solver.py: Solver.play, for the Solver.guess of a subclass *)

SolverKinds == {"any", "first_remaining", "never_matching"}

\* what Solver.guess may return: any tuple of words for an arbitrary solver,
\* the members of the first remaining category, or a group that never matches
SolverGuesses(kind) ==
    CASE kind = "first_remaining" -> {categories[1].members}
      [] kind = "never_matching" -> {<<"HAIL", "RAIN", "SLEET", "KAYAK">>}
      [] OTHER -> { DailyBoard[i].members : i \in DOMAIN DailyBoard } \cup
                  { <<"SNOW", "SLEET", "RAIN", "HAIL">>,
                    <<"HAIL", "RAIN", "SLEET", "KAYAK">>,
                    <<"HAIL", "RAIN", "SLEET", "PIZZA">> }

\* a fresh game and the locals play sets up before its loop
InitPlay ==
    /\ \E board \in Boards, maxs \in 1..MaxStrikes :
         \E start \in 0..maxs : NewGame(board, 4, maxs, start)
    /\ last = CallResult("init", <<>>, FALSE, <<>>)
    /\ pc = "play_while"
    /\ solver_kind \in SolverKinds
    /\ metrics = Metrics
    /\ previous_guesses = {}
    /\ iterations = 0
    /\ NoAgents

\* while not game.is_over
PlayWhile ==
    /\ pc = "play_while"
    /\ pc' = IF ~is_over THEN "play_body" ELSE "play_return"
    /\ UNCHANGED <<gameVars, solver_kind, metrics, previous_guesses, iterations, agentVars>>

\* a loop body that leaves previous_guesses as it was
PlayBodyWith_forgets(guess, x) ==
    /\ pc = "play_body"
    /\ category_guess_check(guess)
    /\ IF last'.raised
       THEN /\ pc' = "play_raised"
            /\ UNCHANGED <<metrics, previous_guesses>>
       ELSE IF last'.ret = <<>>
       THEN /\ previous_guesses' = previous_guesses
            /\ metrics' = increment_failed_guesses(
                              hallucination_words(metrics, guess, all_words))
            /\ pc' = "play_while"
       ELSE /\ metrics' = cosine_similarity_category(
                              add_solve(metrics, IndexOf(og_groups, last'.ret[1]) - 1), x)
            /\ pc' = "play_while"
            /\ UNCHANGED previous_guesses
    /\ iterations' = iterations + 1
    /\ UNCHANGED <<solver_kind, agentVars>>

\* the loop body past the call of guess: category_guess_check and the metrics
\* of the outcome; a GameOverException is not caught and ends play
PlayBodyWith(guess, x) ==
    /\ pc = "play_body"
    /\ category_guess_check(guess)
    /\ IF last'.raised
       THEN /\ pc' = "play_raised"
            /\ UNCHANGED <<metrics, previous_guesses>>
       ELSE IF last'.ret = <<>>
       THEN /\ previous_guesses' = previous_guesses \cup {guess}
            /\ metrics' = increment_failed_guesses(
                              hallucination_words(metrics, guess, all_words))
            /\ pc' = "play_while"
       ELSE /\ metrics' = cosine_similarity_category(
                              add_solve(metrics, IndexOf(og_groups, last'.ret[1]) - 1), x)
            /\ pc' = "play_while"
            /\ UNCHANGED previous_guesses
    /\ iterations' = iterations + 1
    /\ UNCHANGED <<solver_kind, agentVars>>

\* the loop body, for what the Solver's guess returns
PlayBody ==
    /\ pc = "play_body"
    /\ \E guess \in SolverGuesses(solver_kind), x \in Similarities : PlayBodyWith(guess, x)

NextPlay == PlayWhile \/ PlayBody

SpecPlay == InitPlay /\ [][NextPlay]_vars

\* play is one synchronous loop: while guess returns, it takes its next step
SpecPlayFair == SpecPlay /\ WF_vars(NextPlay)

-----------------------------------------------------------------------------
(* solvers/solver.py and solvers/naive.py: Solver.play for a Solver whose
   guess is read out of a model's reply *)

\* NaiveSolver.guess, which reads the words with extract_words, and
\* NaiveSolver.guess_json_format
LlmKinds == {"naive", "naive_json"}

\* the one-line reply extract_words asks for, as its whitespace-separated tokens
ExtractReplies ==
    { <<>>,
      <<"hail", "rain", "sleet", "snow">>,
      <<"BUCKS", "HEAT", "JAZZ", "NETS", "OPTION">>,
      <<"HAIL", "RAIN", "SLEET">>,
      <<"HAIL", "RAIN", "SLEET", "PIZZA">> }

\* the reply guess_json_format reads: not JSON, JSON without the "words" key,
\* or JSON with a reason and a list of words
JsonReplies ==
    { [json |-> FALSE],
      [json |-> TRUE, keys |-> FALSE],
      [json |-> TRUE, keys |-> TRUE, words |-> <<"HAIL", "RAIN", "SLEET", "SNOW">>],
      [json |-> TRUE, keys |-> TRUE, words |-> <<"HAIL", "RAIN", "SLEET">>],
      [json |-> TRUE, keys |-> TRUE, words |-> <<"HAIL", "RAIN", "SLEET", "PIZZA">>] }

\* what a guess hands to play: a tuple of words, or an exception
Returns(value) == [raised |-> FALSE, value |-> value]
Raises == [raised |-> TRUE, value |-> <<>>]

\* extract_words: the first four tokens in upper case, filled up with empty
\* strings, and a ValueError when that is fewer than group_size
extract_words(updated_response, size) ==
    LET upper == NormalizeAll(updated_response)
        guess == SubSeq(upper, 1, IF Len(upper) < 4 THEN Len(upper) ELSE 4)
                    \o [i \in 1..(4 - Len(upper)) |-> ""]
    IN  IF Len(guess) < size THEN Raises ELSE Returns(guess)

\* NaiveSolver.guess_json_format: the ValueError of a list of the wrong length
\* is raised inside the try and is neither a JSONDecodeError nor a KeyError
guess_json_format(response, size) ==
    IF ~response.json \/ ~response.keys
    THEN Returns(<<>>)
    ELSE IF Len(response.words) # size
    THEN Raises
    ELSE Returns(response.words)

\* what the guess of an LLM-backed Solver can hand to play
LlmGuesses(kind) ==
    IF kind = "naive"
    THEN { extract_words(r, group_size) : r \in ExtractReplies }
    ELSE { guess_json_format(r, group_size) : r \in JsonReplies }

\* a fresh game and the locals play sets up before its loop
InitLlm ==
    /\ \E board \in Boards, maxs \in 1..MaxStrikes :
         \E start \in 0..maxs : NewGame(board, 4, maxs, start)
    /\ last = CallResult("init", <<>>, FALSE, <<>>)
    /\ pc = "play_while"
    /\ solver_kind \in LlmKinds
    /\ metrics = Metrics
    /\ previous_guesses = {}
    /\ iterations = 0
    /\ NoAgents

\* the loop body: an exception of guess is not caught and ends play
LlmPlayBody ==
    /\ pc = "play_body"
    /\ \E out \in LlmGuesses(solver_kind), x \in Similarities :
         IF out.raised
         THEN /\ pc' = "play_raised"
              /\ UNCHANGED <<gameVars, solver_kind, metrics, previous_guesses, iterations,
                             agentVars>>
         ELSE PlayBodyWith(out.value, x)

NextLlm == PlayWhile \/ LlmPlayBody

SpecLlm == InitLlm /\ [][NextLlm]_vars

-----------------------------------------------------------------------------
(* The replies of the reasoning roles *)

\* a reply the parser rejects, or no reply at all (ValueError)
Malformed == [parsed |-> FALSE]

Reply(g, c) == [parsed |-> TRUE, group |-> g, category |-> c]

\* parse_guesser_reply / parse_snap_guesser_reply: the group and the category
\* a proposer's reply can hold: the first remaining category under its own
\* name, the weather words in lower case and out of order, two near misses, a
\* group with a repeated word, a short group, and a group with a word that is
\* not on the board
GuesserReplies ==
    {Malformed} \cup
    (IF categories # <<>>
     THEN {Reply(categories[1].members, categories[1].group)}
     ELSE {}) \cup
    { Reply(<<"snow", "sleet", "rain", "hail">>, "WET WEATHER"),
      Reply(<<"HAIL", "RAIN", "SLEET", "KAYAK">>, "WET WEATHER"),
      Reply(<<"HAIL", "RAIN", "SNOW", "KAYAK">>, "RAINY DAYS"),
      Reply(<<"HAIL", "HAIL", "RAIN", "SLEET">>, "WET WEATHER"),
      Reply(<<"HAIL", "RAIN", "SLEET">>, "RAINY DAYS"),
      Reply(<<"HAIL", "RAIN", "SLEET", "PIZZA">>, "RAINY DAYS") }

\* parse_validator_reply: the agreement and the feedback text, empty when the
\* reply has no feedback field
ValidatorReplies ==
    { Malformed,
      [parsed |-> TRUE, agreement |-> TRUE, validator_feedback |-> ""],
      [parsed |-> TRUE, agreement |-> FALSE, validator_feedback |-> "Too broad a category."] }

\* a ValueError that leaves guess
Raise(message) == [exception |-> "ValueError", message |-> message]

\* the ValueError of a GVCSolver.guess that ran out of attempts
NoConsensus == Raise("Consensus not reached after maximum retries. Unable to make a guess.")

\* what guess and snap_guess return in place of a guess
ErrorReturn == [guess |-> <<"Error", "Error">>, reasoning |-> "Error"]
NoneReturn == [guess |-> <<"None", "None">>, reasoning |-> "None"]

-----------------------------------------------------------------------------
(* solvers/snap_gvc.py: SGVCSolver.guess, snap_guess and play *)

\* the Game Engine Feedback a prompt is built with: the ledger, when a guess has failed
RenderFeedback(s) ==
    IF s.failed_guesses # <<>>
    THEN [s EXCEPT !.feedback = <<s.sorted_failed_guesses>>]
    ELSE s

\* a rejection that replaces the buffer by the group rejected last
Reject_keeps_last_only(s, group, error) ==
    [s EXCEPT !.rejected_guesses_buffer = <<group>>,
              !.prev_validator_feedback_if_rejected = <<error>>]

\* a rejection that keeps the feedback of the round before
Reject_stale_feedback(s, group, error) ==
    [s EXCEPT !.rejected_guesses_buffer =
                  insertion_sort_list(DequeAppend(@, group, max_retries))]

\* the rejection at the end of a round of guess
Reject(s, group, error) ==
    [s EXCEPT !.rejected_guesses_buffer =
                  insertion_sort_list(DequeAppend(@, group, max_retries)),
              !.prev_validator_feedback_if_rejected = <<error>>]

\* a new game, not a resumed one, and a fresh solver at the first test of
\* play's outer loop
InitSGVC ==
    /\ \E board \in {DailyBoard, SmallBoard}, maxs \in 1..MaxStrikes :
         NewGame(board, 4, maxs, 0)
    /\ last = CallResult("init", <<>>, FALSE, <<>>)
    /\ pc = "sgvc_outer"
    /\ solver_kind = "sgvc"
    /\ metrics = Metrics
    /\ previous_guesses = {}
    /\ iterations = 0
    /\ NoAgents

\* the outer while not game.is_over, and the counters set at its top; past
\* the loop, play resets the solver and returns
SgvcOuter ==
    /\ pc = "sgvc_outer"
    /\ IF ~is_over
       THEN /\ error_counter' = 0
            /\ wrong_counter' = 0
            /\ pc' = "sgvc_cons"
            /\ UNCHANGED sgvc
       ELSE /\ sgvc' = sgvc_reset(sgvc)
            /\ pc' = "sgvc_return"
            /\ UNCHANGED <<error_counter, wrong_counter>>
    /\ UNCHANGED <<gameVars, solver_kind, metrics, previous_guesses, iterations,
                   attempt, returned, gvc_guesses, try_counter, rsa, endpoint, flow>>

\* the inner while not game.is_over of the conservative phase: it calls guess,
\* or falls through to the snap phase, which starts with snap_correct = False
SgvcCons ==
    /\ pc = "sgvc_cons"
    /\ IF ~is_over
       THEN /\ attempt' = 1
            /\ pc' = "sgvc_round"
            /\ UNCHANGED sgvc
       ELSE /\ sgvc' = [sgvc EXCEPT !.snap_correct = FALSE]
            /\ pc' = "sgvc_snap"
            /\ UNCHANGED attempt
    /\ UNCHANGED <<gameVars, solver_kind, metrics, previous_guesses, iterations,
                   returned, gvc_guesses, error_counter, wrong_counter, try_counter, rsa, endpoint, flow>>

\* one round of SGVCSolver.guess, for the proposer's reply gr and the reply vr
\* the validator gives if it is asked
SgvcRoundWith(gr, vr) ==
    /\ pc = "sgvc_round"
    /\   \E guesser_group \in {IF gr.parsed THEN sorted(NormalizeAll(gr.group)) ELSE <<>>} :
         \E check \in {grounding_check(sgvc.sorted_failed_guesses, guesser_group,
                                       all_words, group_size)} :
         LET s0 == RenderFeedback(sgvc)
             s1 == [s0 EXCEPT !.last_guess = <<[group |-> gr.group, category |-> gr.category]>>,
                              !.guesser_past_understandings = <<"understandings">>]
             grounded == check[1]
             asked == grounded /\ Len(all_words) # group_size
             s2 == IF asked /\ vr.parsed THEN [s1 EXCEPT !.validator_dict = <<vr>>] ELSE s1
             error == IF asked THEN vr.validator_feedback ELSE check[2]
             accepted == grounded /\ (Len(all_words) = group_size \/ vr.agreement)
             s3 == IF Len(all_words) = group_size
                   THEN s2
                   ELSE [s2 EXCEPT !.prev_validator_feedback_if_rejected = <<>>,
                                   !.guesses = DictAppend(@, gr.category, guesser_group)]
         IN  IF ~gr.parsed
             THEN /\ sgvc' = s0
                  /\ returned' = <<ErrorReturn>>
                  /\ pc' = "sgvc_ret"
                  /\ UNCHANGED attempt
             ELSE IF asked /\ ~vr.parsed
             THEN /\ sgvc' = s1
                  /\ returned' = <<ErrorReturn>>
                  /\ pc' = "sgvc_ret"
                  /\ UNCHANGED attempt
             ELSE IF accepted
             THEN /\ sgvc' = s3
                  /\ returned' = <<[guess |-> guesser_group, reasoning |-> gr.category]>>
                  /\ pc' = "sgvc_ret"
                  /\ UNCHANGED attempt
             ELSE /\ sgvc' = Reject(s2, guesser_group, error)
                  /\ IF attempt < max_retries
                     THEN /\ attempt' = attempt + 1
                          /\ UNCHANGED <<pc, returned>>
                     ELSE /\ returned' = <<NoneReturn>>
                          /\ pc' = "sgvc_ret"
                          /\ UNCHANGED attempt
    /\ UNCHANGED <<gameVars, solver_kind, metrics, previous_guesses, iterations,
                   gvc_guesses, error_counter, wrong_counter, try_counter, rsa, endpoint, flow>>

\* one round of SGVCSolver.guess, for any replies of the two roles
SgvcRound == \E gr \in GuesserReplies, vr \in ValidatorReplies : SgvcRoundWith(gr, vr)

\* a wrong guess put at the front of the ledger, which is not sorted again
RecordFailed_unsorted(s, guess, reasoning) ==
    [s EXCEPT !.failed_guesses = DictSet(@, reasoning, guess),
              !.sorted_failed_guesses = <<sorted(guess)>> \o @]

\* a wrong guess that is kept in failed_guesses but not in the sorted ledger
RecordFailed_no_ledger(s, guess, reasoning) ==
    [s EXCEPT !.failed_guesses = DictSet(@, reasoning, guess)]

\* the bookkeeping play does after a wrong guess, in either phase
RecordFailed(s, guess, reasoning) ==
    [s EXCEPT !.failed_guesses = DictSet(@, reasoning, guess),
              !.sorted_failed_guesses = insertion_sort_list(Append(@, sorted(guess)))]

\* the rest of an iteration of the conservative loop, once guess has returned;
\* a break leads to the snap phase, which starts with snap_correct = False
SgvcHandle ==
    /\ pc = "sgvc_ret"
    /\ returned' = <<>>
    /\ LET r == returned[1]
       IN  IF r.reasoning = "Error"
           THEN /\ error_counter' = error_counter + 1
                /\ sgvc' = reset_agents_state(sgvc)
                /\ pc' = IF error_counter + 1 = max_conservative_round_errors
                         THEN "sgvc_snap" ELSE "sgvc_cons"
                /\ UNCHANGED <<gameVars, metrics, previous_guesses, iterations, wrong_counter>>
           ELSE IF r.reasoning = "None"
           THEN /\ sgvc' = reset_agents_state(sgvc)
                /\ pc' = "sgvc_snap"
                /\ UNCHANGED <<gameVars, metrics, previous_guesses, iterations,
                               error_counter, wrong_counter>>
           ELSE /\ \E x \in Similarities :
                     /\ category_guess_check(r.guess)
                     /\ IF last'.raised
                        THEN /\ sgvc' = [sgvc EXCEPT !.snap_correct = FALSE]
                             /\ pc' = "sgvc_snap"
                             /\ UNCHANGED <<metrics, previous_guesses, wrong_counter>>
                        ELSE IF last'.ret = <<>>
                        THEN /\ previous_guesses' = previous_guesses \cup {r.guess}
                             /\ metrics' = increment_failed_guesses(
                                              hallucination_words(metrics, r.guess, all_words))
                             /\ sgvc' = reset_agents_state(RecordFailed(sgvc, r.guess, r.reasoning))
                             /\ wrong_counter' = wrong_counter + 1
                             /\ pc' = IF wrong_counter + 1 >= max_conservative_wrong_guesses
                                      THEN "sgvc_snap" ELSE "sgvc_cons"
                        ELSE /\ metrics' = cosine_similarity_category(
                                              add_solve(metrics, IndexOf(og_groups, last'.ret[1]) - 1), x)
                             /\ sgvc' = reset_agents_state(sgvc)
                             /\ wrong_counter' = 0
                             /\ pc' = "sgvc_cons"
                             /\ UNCHANGED previous_guesses
                /\ iterations' = iterations + 1
                /\ UNCHANGED error_counter
    /\ UNCHANGED <<solver_kind, attempt, gvc_guesses, try_counter, rsa, endpoint, flow>>

\* a snap loop that tests only snap_correct
SgvcSnap_no_over_test ==
    /\ pc = "sgvc_snap"
    /\ pc' = IF ~sgvc.snap_correct THEN "sgvc_snap_guess" ELSE "sgvc_outer"
    /\ UNCHANGED <<gameVars, solver_kind, metrics, previous_guesses, iterations, agentVars>>

\* while not game.is_over and not self.snap_correct
SgvcSnap ==
    /\ pc = "sgvc_snap"
    /\ pc' = IF ~is_over /\ ~sgvc.snap_correct THEN "sgvc_snap_guess" ELSE "sgvc_outer"
    /\ UNCHANGED <<gameVars, solver_kind, metrics, previous_guesses, iterations, agentVars>>

\* SGVCSolver.snap_guess, for a snap agent's reply
SgvcSnapGuess ==
    /\ pc = "sgvc_snap_guess"
    /\ \E gr \in GuesserReplies :
         \E guesser_group \in {IF gr.parsed THEN sorted(NormalizeAll(gr.group)) ELSE <<>>} :
         \E check \in {grounding_check(sgvc.sorted_failed_guesses, guesser_group,
                                       all_words, group_size)} :
         LET s0 == RenderFeedback(sgvc)
         IN  IF gr.parsed /\ check[1]
             THEN /\ sgvc' = [s0 EXCEPT !.guesses = DictAppend(@, gr.category, guesser_group)]
                  /\ returned' = <<[guess |-> guesser_group, reasoning |-> gr.category]>>
             ELSE /\ sgvc' = s0
                  /\ returned' = <<NoneReturn>>
    /\ pc' = "sgvc_snap_ret"
    /\ UNCHANGED <<gameVars, solver_kind, metrics, previous_guesses, iterations,
                   attempt, gvc_guesses, error_counter, wrong_counter, try_counter, rsa, endpoint, flow>>

\* the rest of an iteration of the snap loop, once snap_guess has returned
SgvcSnapHandle ==
    /\ pc = "sgvc_snap_ret"
    /\ returned' = <<>>
    /\ LET r == returned[1]
       IN  IF r.reasoning = "None"
           THEN /\ pc' = "sgvc_snap"
                /\ UNCHANGED <<gameVars, metrics, previous_guesses, iterations, sgvc>>
           ELSE /\ \E x \in Similarities :
                     /\ category_guess_check(r.guess)
                     /\ IF last'.raised
                        THEN /\ pc' = "sgvc_outer"
                             /\ UNCHANGED <<metrics, previous_guesses, sgvc>>
                        ELSE IF last'.ret = <<>>
                        THEN /\ previous_guesses' = previous_guesses \cup {r.guess}
                             /\ metrics' = increment_failed_guesses(
                                              hallucination_words(metrics, r.guess, all_words))
                             /\ sgvc' = reset_agents_state(RecordFailed(sgvc, r.guess, r.reasoning))
                             /\ pc' = "sgvc_snap"
                        ELSE /\ metrics' = cosine_similarity_category(
                                              add_solve(metrics, IndexOf(og_groups, last'.ret[1]) - 1), x)
                             /\ sgvc' = [sgvc EXCEPT !.snap_correct = TRUE]
                             /\ pc' = "sgvc_outer"
                             /\ UNCHANGED previous_guesses
                /\ iterations' = iterations + 1
    /\ UNCHANGED <<solver_kind, attempt, gvc_guesses, error_counter, wrong_counter, try_counter, rsa, endpoint, flow>>

NextSGVC ==
    \/ SgvcOuter
    \/ SgvcCons
    \/ SgvcRound
    \/ SgvcHandle
    \/ SgvcSnap
    \/ SgvcSnapGuess
    \/ SgvcSnapHandle

SpecSGVC == InitSGVC /\ [][NextSGVC]_vars

\* a game on the daily board with one strike more than three wrong guesses
\* cost, so that play goes on after the third
InitSGVCLong ==
    /\ NewGame(DailyBoard, 4, max_conservative_wrong_guesses + 1, 0)
    /\ last = CallResult("init", <<>>, FALSE, <<>>)
    /\ pc = "sgvc_outer"
    /\ solver_kind = "sgvc"
    /\ metrics = Metrics
    /\ previous_guesses = {}
    /\ iterations = 0
    /\ NoAgents

SpecSGVCLong == InitSGVCLong /\ [][NextSGVC]_vars

\* play is one synchronous loop: while the roles reply, it takes its next step
SpecSGVCFair == SpecSGVC /\ WF_vars(NextSGVC)

-----------------------------------------------------------------------------
(* solvers/gvc.py: GVCSolver.guess and play *)

\* parse_validator_reply of gvc.py: a group of four words, or a ValueError
GvcValidatorReplies ==
    { Malformed, [parsed |-> TRUE, group |-> <<"HAIL", "RAIN", "SLEET", "SNOW">>] }

\* parse_consensus_reply: whatever the consensus role answers, read as a boolean
ConsensusReplies == BOOLEAN

\* self.guesses.setdefault(category, []).append(tuple(group)); the entries are
\* kept as a set of pairs, since their order and number only reach prompt text
GvcRecord(g, category, group) == g \cup {<<category, group>>}

\* a new game, not a resumed one, and a fresh solver at the first test of
\* play's loop
InitGVC ==
    /\ \E board \in {DailyBoard, SmallBoard}, maxs \in 1..MaxStrikes :
         NewGame(board, 4, maxs, 0)
    /\ last = CallResult("init", <<>>, FALSE, <<>>)
    /\ pc = "gvc_while"
    /\ solver_kind = "gvc"
    /\ metrics = Metrics
    /\ previous_guesses = {}
    /\ iterations = 0
    /\ NoAgents

\* while not game.is_over, and the first attempt of guess
GvcWhile ==
    /\ pc = "gvc_while"
    /\ IF ~is_over
       THEN pc' = "gvc_round" /\ attempt' = 1
       ELSE pc' = "gvc_return" /\ UNCHANGED attempt
    /\ UNCHANGED <<gameVars, solver_kind, metrics, previous_guesses, iterations,
                   returned, gvc_guesses, sgvc, error_counter, wrong_counter, try_counter, rsa, endpoint, flow>>

\* one attempt of GVCSolver.guess; a ValueError (a reply that does not parse,
\* or no consensus at the last attempt) is caught by play, which breaks
GvcRound ==
    /\ pc = "gvc_round"
    /\ \E gr \in GuesserReplies, vr \in GvcValidatorReplies, consensus_result \in ConsensusReplies :
         IF ~gr.parsed \/ Len(gr.group) # 4 \/ ~vr.parsed
         THEN /\ returned' = <<Raise("reply does not parse")>>
              /\ pc' = "gvc_return"
              /\ UNCHANGED <<attempt, gvc_guesses>>
         ELSE /\ gvc_guesses' = GvcRecord(gvc_guesses, gr.category, gr.group)
              /\ IF consensus_result
                 THEN /\ returned' = <<[guess |-> gr.group, reasoning |-> gr.category]>>
                      /\ pc' = "gvc_ret"
                      /\ UNCHANGED attempt
                 ELSE IF attempt = max_retries
                 THEN /\ returned' = <<NoConsensus>>
                      /\ pc' = "gvc_return"
                      /\ UNCHANGED attempt
                 ELSE /\ attempt' = attempt + 1
                      /\ UNCHANGED <<pc, returned>>
    /\ UNCHANGED <<gameVars, solver_kind, metrics, previous_guesses, iterations,
                   sgvc, error_counter, wrong_counter, try_counter, rsa, endpoint, flow>>

\* the rest of an iteration of play's loop, once guess has returned
GvcHandle ==
    /\ pc = "gvc_ret"
    /\ returned' = <<>>
    /\ LET r == returned[1]
       IN  \E x \in Similarities :
             /\ category_guess_check(r.guess)
             /\ IF last'.raised
                THEN /\ pc' = "gvc_return"
                     /\ UNCHANGED metrics
                ELSE IF last'.ret = <<>>
                THEN /\ metrics' = increment_failed_guesses(
                                       hallucination_words(metrics, r.guess, all_words))
                     /\ pc' = "gvc_while"
                ELSE /\ metrics' = cosine_similarity_category(
                                       add_solve(metrics, IndexOf(og_groups, last'.ret[1]) - 1), x)
                     /\ pc' = "gvc_while"
    /\ iterations' = iterations + 1
    /\ UNCHANGED <<solver_kind, previous_guesses, attempt, gvc_guesses, sgvc,
                   error_counter, wrong_counter, try_counter, rsa, endpoint, flow>>

NextGVC == GvcWhile \/ GvcRound \/ GvcHandle

SpecGVC == InitGVC /\ [][NextGVC]_vars

-----------------------------------------------------------------------------
(* solvers/gvc_2.py: the GVCSolver with a consensus fallback, guess and play *)

\* play raises NotImplementedError at this many handled guesses
max_tries == 6

\* parse_guesser_reply of gvc_2.py: a group and a category, or a ValueError
Gvc2GuesserReplies ==
    {Malformed} \cup
    (IF categories # <<>>
     THEN {Reply(categories[1].members, categories[1].group)}
     ELSE {}) \cup
    { Reply(<<"HAIL", "RAIN", "SLEET">>, "RAINY DAYS") }

\* parse_consensus_reply of gvc_2.py: the final group and category the
\* consensus role picks, or a ValueError
Gvc2ConsensusReplies ==
    {Malformed} \cup
    (IF categories # <<>>
     THEN {Reply(categories[1].members, categories[1].group)}
     ELSE {}) \cup
    { Reply(<<"HAIL", "RAIN", "SLEET", "PIZZA">>, "RAINY DAYS") }

\* the Game Engine Feedback of gvc_2.py: empty, or the failed guesses by category
Gvc2Feedback(s) == [s EXCEPT !.feedback = <<s.failed_guesses>>]

\* the reset of the agents' state at the end of an iteration of play
Gvc2ResetAgents(s) ==
    [s EXCEPT !.guesser_past_understandings = <<>>,
              !.prev_validator_feedback_if_rejected = <<>>,
              !.validator_dict = <<>>,
              !.feedback = <<>>]

\* a new game, not a resumed one, and a fresh solver at the first test of
\* play's loop
InitGVC2 ==
    /\ \E board \in {DailyBoard, SmallBoard}, maxs \in 1..MaxStrikes :
         NewGame(board, 4, maxs, 0)
    /\ last = CallResult("init", <<>>, FALSE, <<>>)
    /\ pc = "gvc2_while"
    /\ solver_kind = "gvc_2"
    /\ metrics = Metrics
    /\ previous_guesses = {}
    /\ iterations = 0
    /\ NoAgents

\* while not game.is_over, and the first attempt of guess
Gvc2While ==
    /\ pc = "gvc2_while"
    /\ IF ~is_over
       THEN pc' = "gvc2_round" /\ attempt' = 1
       ELSE pc' = "gvc2_return" /\ UNCHANGED attempt
    /\ UNCHANGED <<gameVars, solver_kind, metrics, previous_guesses, iterations,
                   returned, gvc_guesses, sgvc, error_counter, wrong_counter, try_counter, rsa, endpoint, flow>>

\* one round of guess, for the proposer's reply gr and the validator's reply
\* vr; a ValueError is caught by play, which breaks
Gvc2RoundWith(gr, vr) ==
    /\ pc = "gvc2_round"
    /\ LET s0 == Gvc2Feedback(sgvc)
           s1 == [s0 EXCEPT !.guesser_past_understandings = <<"understandings">>]
           s2 == [s1 EXCEPT !.validator_dict = <<vr>>]
       IN  IF ~gr.parsed
           THEN /\ sgvc' = s0
                /\ returned' = <<Raise("Error parsing reply")>>
                /\ pc' = "gvc2_return"
                /\ UNCHANGED attempt
           ELSE IF ~vr.parsed
           THEN /\ sgvc' = s1
                /\ returned' = <<Raise("Error parsing validation report")>>
                /\ pc' = "gvc2_return"
                /\ UNCHANGED attempt
           ELSE IF vr.agreement
           THEN /\ sgvc' = [s2 EXCEPT !.prev_validator_feedback_if_rejected = <<>>,
                                      !.guesses = DictAppend(@, gr.category, gr.group)]
                /\ returned' = <<[guess |-> gr.group, reasoning |-> gr.category]>>
                /\ pc' = "gvc2_ret"
                /\ UNCHANGED attempt
           ELSE /\ sgvc' = [s2 EXCEPT !.prev_validator_feedback_if_rejected =
                                          <<vr.validator_feedback>>]
                /\ IF attempt < max_retries
                   THEN /\ attempt' = attempt + 1
                        /\ UNCHANGED <<pc, returned>>
                   ELSE /\ pc' = "gvc2_consensus"
                        /\ UNCHANGED <<attempt, returned>>
    /\ UNCHANGED <<gameVars, solver_kind, metrics, previous_guesses, iterations,
                   gvc_guesses, error_counter, wrong_counter, try_counter, rsa, endpoint, flow>>

\* one round of guess, for any replies of the two roles
Gvc2Round == \E gr \in Gvc2GuesserReplies, vr \in ValidatorReplies : Gvc2RoundWith(gr, vr)

\* past the rounds: the consensus role is asked for the final guess
Gvc2Consensus ==
    /\ pc = "gvc2_consensus"
    /\ \E cr \in Gvc2ConsensusReplies :
         IF ~cr.parsed
         THEN /\ returned' = <<Raise("Error parsing reply")>>
              /\ pc' = "gvc2_return"
         ELSE /\ returned' = <<[guess |-> cr.group, reasoning |-> cr.category]>>
              /\ pc' = "gvc2_ret"
    /\ UNCHANGED <<gameVars, solver_kind, metrics, previous_guesses, iterations,
                   attempt, gvc_guesses, sgvc, error_counter, wrong_counter, try_counter, rsa, endpoint, flow>>
\* the rest of an iteration of play's loop, once guess has returned
Gvc2Handle ==
    /\ pc = "gvc2_ret"
    /\ returned' = <<>>
    /\ LET r == returned[1]
       IN  \E x \in Similarities :
             /\ category_guess_check(r.guess)
             /\ IF last'.raised
                THEN /\ pc' = "gvc2_return"
                     /\ UNCHANGED <<metrics, previous_guesses, sgvc, try_counter>>
                ELSE /\ IF last'.ret = <<>>
                        THEN /\ previous_guesses' = previous_guesses \cup {r.guess}
                             /\ metrics' = increment_failed_guesses(
                                               hallucination_words(metrics, r.guess, all_words))
                        ELSE /\ metrics' = cosine_similarity_category(
                                               add_solve(metrics, IndexOf(og_groups, last'.ret[1]) - 1), x)
                             /\ UNCHANGED previous_guesses
                     /\ try_counter' = try_counter + 1
                     /\ LET s == IF last'.ret = <<>>
                                 THEN [sgvc EXCEPT !.failed_guesses = DictSet(@, r.reasoning, r.guess)]
                                 ELSE sgvc
                        IN  IF try_counter + 1 = max_tries
                            THEN sgvc' = s /\ pc' = "gvc2_return"
                            ELSE sgvc' = Gvc2ResetAgents(s) /\ pc' = "gvc2_while"
    /\ iterations' = iterations + 1
    /\ UNCHANGED <<solver_kind, attempt, gvc_guesses, error_counter, wrong_counter, rsa, endpoint, flow>>

NextGVC2 == Gvc2While \/ Gvc2Round \/ Gvc2Consensus \/ Gvc2Handle

SpecGVC2 == InitGVC2 /\ [][NextGVC2]_vars

-----------------------------------------------------------------------------
(* The negotiation protocols side by side: snap_gvc.py and gvc_2.py *)

InitNegotiation == InitSGVC \/ InitGVC2

NextNegotiation == NextSGVC \/ NextGVC2

SpecNegotiation == InitNegotiation /\ [][NextNegotiation]_vars

-----------------------------------------------------------------------------
(* solvers/rsa.py: the exhaustive search of RSASolver *)

\* the longest word bank guess is called with
MaxBank == 5

\* the largest group size guess is called with
MaxGroupSize == 4

\* the words a bank is made of
BankWords == {Vocabulary[i] : i \in 1..MaxBank}

\* the word banks: lists of distinct words, in any order
WordBanks ==
    {wb \in UNION {[1..n -> BankWords] : n \in 0..MaxBank} :
        \A i, j \in DOMAIN wb : i # j => wb[i] # wb[j]}

\* `raise StopIteration` in the body of a generator reaches the caller as
\* RuntimeError (PEP 479)
RuntimeError == [exception |-> "RuntimeError", message |-> "generator raised StopIteration"]

\* heappop on an empty list
IndexError == [exception |-> "IndexError", message |-> "index out of range"]

\* RSASolver._generate_groups, run to its end: the groups it yields, in
\* order, and whether it ends by raising.  generate_from is its for loop from
\* position i (1-based) on: the list of one word's groups is built in full
\* before any of them is yielded, so an error in the inner generator loses
\* the whole list.
RECURSIVE _generate_groups(_, _), generate_from(_, _, _)
_generate_groups(word_bank, size) ==
    IF size = 1
    THEN [yielded |-> [i \in DOMAIN word_bank |-> <<word_bank[i]>>], raised |-> TRUE]
    ELSE generate_from(word_bank, size, 1)

generate_from(word_bank, size, i) ==
    IF i > Len(word_bank) - (size - 1)
    THEN [yielded |-> <<>>, raised |-> FALSE]
    ELSE LET sub == _generate_groups(SubSeq(word_bank, i + 1, Len(word_bank)), size - 1)
         IN  IF sub.raised
             THEN [yielded |-> <<>>, raised |-> TRUE]
             ELSE LET rest == generate_from(word_bank, size, i + 1)
                  IN  [yielded |-> [j \in DOMAIN sub.yielded |-> <<word_bank[i]>> \o sub.yielded[j]]
                                       \o rest.yielded,
                       raised |-> rest.raised]

\* Category.diff: the size of the symmetric difference of the two member sets
diff(members, other_members) ==
    Cardinality((ToSet(members) \ ToSet(other_members))
                    \cup (ToSet(other_members) \ ToSet(members)))

\* what the pragmatic listener can answer for the category of a proposed
\* group: one list of members per line of its reply
ListenerGuesses(word_bank, proposed_group) ==
    LET head == SubSeq(word_bank, 1, Len(proposed_group))
    IN  {<<proposed_group>>, <<head>>, <<head, proposed_group>>, <<<<"">>>>}

\* set() of a list that holds a Category: Category is a @dataclass with eq
\* and without frozen=True, which sets its __hash__ to None
TypeError == [exception |-> "TypeError", message |-> "unhashable type: 'Category'"]

\* a call that ends with the exception
RaisesError(exception) == [raised |-> TRUE, value |-> exception]

\* response.strip().split(sep), for a reply given as its pieces: the empty
\* reply splits into one empty string
split(response) == IF response = <<>> THEN <<"">> ELSE response

\* LiteralListener.guess: one Category, with the pieces of the reply as members
literal_guess(category, response) == <<Category(-1, category, split(response))>>

\* Listener.evaluate_category: set(self.guess(...)) is taken of the list of
\* Category objects, not of the members of its Category
evaluate_category(guess, target_words) ==
    IF guess # <<>>
    THEN RaisesError(TypeError)
    ELSE Returns(Cardinality({} \cap ToSet(target_words)))

\* what the speaker can answer: the descriptions it proposes, one per line
SpeakerReplies ==
    {<<>>, <<"WEATHER">>, <<"WEATHER", "THINGS THAT FALL">>,
     <<"SPORTS", "THINGS THAT FALL", "WEATHER">>}

\* what the literal listener can answer for each description: all of the
\* proposed group, its first two words with a word that is not of the
\* group, one word, or nothing
LiteralReplies(proposed_group) ==
    {proposed_group,
     SubSeq(proposed_group, 1, IF Len(proposed_group) < 2 THEN Len(proposed_group) ELSE 2)
         \o <<"PIZZA">>,
     SubSeq(proposed_group, 1, 1),
     <<>>}

LiteralAnswers(category_list, proposed_group) == [ToSet(category_list) -> LiteralReplies(proposed_group)]

\* sorted(category_list, key=eval_category, reverse=True)[:num_samples]: the key
\* is computed for each description in turn, and the sort is stable, so
\* descriptions of one score keep their order
choose_categories(words, response, l0, num_samples) ==
    LET category_list == split(response)
        key == [i \in DOMAIN category_list |->
                   evaluate_category(literal_guess(category_list[i], l0[category_list[i]]), words)]
        before(i) == Cardinality({j \in DOMAIN category_list :
                        \/ key[j].value > key[i].value
                        \/ key[j].value = key[i].value /\ j < i})
        best_categories == [r \in DOMAIN category_list |->
                               category_list[CHOOSE i \in DOMAIN category_list : before(i) = r - 1]]
    IN  IF \E i \in DOMAIN category_list : key[i].raised
        THEN key[CHOOSE i \in DOMAIN category_list :
                     key[i].raised /\ \A j \in 1..(i - 1) : ~key[j].raised]
        ELSE Returns(SubSeq(best_categories, 1,
                            IF Len(best_categories) < num_samples THEN Len(best_categories)
                            ELSE num_samples))

\* RSASolver._evaluate_group: the speaker chooses a description, and the cost
\* is the smallest mismatch over the pragmatic listener's guesses for it
_evaluate_group(proposed_group, response, l0, guesses) ==
    LET category_utterances == choose_categories(proposed_group, response, l0, 1)
        mismatches == [i \in DOMAIN guesses |-> diff(proposed_group, guesses[i])]
    IN  IF category_utterances.raised
        THEN category_utterances
        ELSE Returns(CHOOSE m \in ToSet(mismatches) : \A o \in ToSet(mismatches) : m <= o)

\* a < b on the (cost, group) tuples of the heap
ItemLess(a, b) == a[1] < b[1] \/ (a[1] = b[1] /\ GroupLess(a[2], b[2]))

\* heapq.heappush; the list is kept here in the order of the pushes, the
\* heap order is applied by heappop
heappush(heap, item) == Append(heap, item)

\* heapq.heappop: the position of the smallest item of the heap
heappop(heap) == CHOOSE i \in DOMAIN heap : \A j \in DOMAIN heap : j # i => ItemLess(heap[i], heap[j])

InitRSA ==
    /\ NewGame(DailyBoard, 4, MaxStrikes, 0)
    /\ last = CallResult("init", <<>>, FALSE, <<>>)
    /\ pc = "rsa_for"
    /\ solver_kind = "rsa"
    /\ metrics = Metrics
    /\ previous_guesses = {}
    /\ iterations = 0
    /\ attempt = 0
    /\ returned = <<>>
    /\ gvc_guesses = {}
    /\ sgvc = NewSGVC
    /\ error_counter = 0
    /\ wrong_counter = 0
    /\ try_counter = 0
    /\ \E word_bank \in WordBanks, size \in 1..MaxGroupSize :
         rsa = [NoRSA EXCEPT !.word_bank = word_bank, !.group_size = size]
    /\ endpoint = NoEndpoint
    /\ flow = NoFlow

\* one turn of the for loop of guess: the next group of the generator is
\* evaluated and pushed; the loop ends when the generator ends or raises, or
\* with the exception of _evaluate_group
RsaFor ==
    /\ pc = "rsa_for"
    /\ \E groups \in {_generate_groups(rsa.word_bank, rsa.group_size)} :
         LET i == Len(rsa.proposed) + 1
         IN  IF i <= Len(groups.yielded)
             THEN \E response \in SpeakerReplies,
                     guesses \in ListenerGuesses(rsa.word_bank, groups.yielded[i]) :
                    \E l0 \in LiteralAnswers(split(response), groups.yielded[i]) :
                      \E group_cost \in {_evaluate_group(groups.yielded[i], response, l0, guesses)} :
                         IF group_cost.raised
                         THEN /\ rsa' = [rsa EXCEPT !.proposed = Append(@, groups.yielded[i])]
                              /\ returned' = <<group_cost.value>>
                              /\ pc' = "rsa_raised"
                         ELSE /\ rsa' = [rsa EXCEPT
                                          !.proposed = Append(@, groups.yielded[i]),
                                          !.error_heap = heappush(@, <<group_cost.value,
                                                                       groups.yielded[i]>>)]
                              /\ UNCHANGED <<pc, returned>>
             ELSE IF groups.raised
             THEN /\ returned' = <<RuntimeError>>
                  /\ pc' = "rsa_raised"
                  /\ UNCHANGED rsa
             ELSE /\ pc' = "rsa_pop"
                  /\ UNCHANGED <<rsa, returned>>
    /\ UNCHANGED <<gameVars, solver_kind, metrics, previous_guesses, iterations,
                   attempt, gvc_guesses, sgvc, error_counter, wrong_counter, try_counter, endpoint, flow>>

\* the end of guess: the smallest item of the heap is popped and its words returned
RsaPop ==
    /\ pc = "rsa_pop"
    /\ IF rsa.error_heap = <<>>
       THEN /\ returned' = <<IndexError>>
            /\ pc' = "rsa_raised"
            /\ UNCHANGED rsa
       ELSE /\ rsa' = [rsa EXCEPT !.most_correct_guess = rsa.error_heap[heappop(rsa.error_heap)],
                                  !.error_heap = RemoveAt(@, heappop(rsa.error_heap))]
            /\ returned' = <<Returns(rsa.error_heap[heappop(rsa.error_heap)][2])>>
            /\ pc' = "rsa_return"
    /\ UNCHANGED <<gameVars, solver_kind, metrics, previous_guesses, iterations,
                   attempt, gvc_guesses, sgvc, error_counter, wrong_counter, try_counter, endpoint, flow>>

NextRSA == RsaFor \/ RsaPop

SpecRSA == InitRSA /\ [][NextRSA]_vars

-----------------------------------------------------------------------------

(* solvers/rsa.py: PragmaticSpeaker.choose_categories called on its own,   *)
(* for a group of the daily board, a reply of the speaker and the answers  *)
(* of the literal listener                                                 *)

\* the groups the speaker is asked to describe
SpeakerWords == {DailyBoard[1].members, <<"HAIL", "RAIN", "SLEET", "KAYAK">>}

InitSpeaker ==
    /\ NewGame(DailyBoard, 4, MaxStrikes, 0)
    /\ last = CallResult("init", <<>>, FALSE, <<>>)
    /\ pc = "choose_categories"
    /\ solver_kind = "speaker"
    /\ metrics = Metrics
    /\ previous_guesses = {}
    /\ iterations = 0
    /\ attempt = 0
    /\ returned = <<>>
    /\ gvc_guesses = {}
    /\ sgvc = NewSGVC
    /\ error_counter = 0
    /\ wrong_counter = 0
    /\ try_counter = 0
    /\ endpoint = NoEndpoint
    /\ flow = NoFlow
    /\ \E words \in SpeakerWords, response \in SpeakerReplies :
         \E l0 \in LiteralAnswers(split(response), words) :
            rsa = [words |-> words, response |-> response, l0 |-> l0]

\* s1.choose_categories(words, num_samples=1)
ChooseCategories ==
    /\ pc = "choose_categories"
    /\ returned' = <<choose_categories(rsa.words, rsa.response, rsa.l0, 1)>>
    /\ pc' = IF returned'[1].raised THEN "choose_categories_raised" ELSE "choose_categories_return"
    /\ UNCHANGED <<gameVars, solver_kind, metrics, previous_guesses, iterations,
                   attempt, gvc_guesses, sgvc, error_counter, wrong_counter, try_counter, rsa,
                   endpoint, flow>>

NextSpeaker == ChooseCategories

SpecSpeaker == InitSpeaker /\ [][NextSpeaker]_vars

-----------------------------------------------------------------------------

(* rsallms/metrics.py called directly: any sequence of add_solve and *)
(* cosine_similarity_category, with the running mean kept as an exact  *)
(* fraction <<numerator, denominator>> in lowest terms                  *)

\* the largest denominator a running mean is followed to
MaxDenominator == 150

RECURSIVE GCD(_, _)
GCD(a, b) == IF b = 0 THEN a ELSE GCD(b, a % b)

\* a fraction in lowest terms
Lowest(f) == IF f[1] = 0 THEN <<0, 1>> ELSE <<f[1] \div GCD(f[1], f[2]), f[2] \div GCD(f[1], f[2])>>

\* the normalized similarities (similarity + 1) / 2 of a pair of labels: 0, 1/2 and 1
NormalizedSimilarities == {<<0, 1>>, <<1, 2>>, <<1, 1>>}

\* float division by len(self.solve_order) when no solve is recorded
ZeroDivisionError == [exception |-> "ZeroDivisionError", message |-> "float division by zero"]

\* an update that adds the similarity to the mean without dividing
running_mean_undivided(category_similarity, k, x) ==
    Lowest(<<((k - 1) * category_similarity[1] * x[2]) + (x[1] * category_similarity[2]),
             category_similarity[2] * x[2]>>)

\* an update that weighs the mean and the new similarity alike
running_mean_halved(category_similarity, k, x) ==
    Lowest(<<(category_similarity[1] * x[2]) + (x[1] * category_similarity[2]),
             category_similarity[2] * x[2] * 2>>)

\* the update of Metrics.cosine_similarity_category on fractions:
\* (((k - 1) * category_similarity) + x) / k for k = len(solve_order)
running_mean(category_similarity, k, x) ==
    Lowest(<<((k - 1) * category_similarity[1] * x[2]) + (x[1] * category_similarity[2]),
             category_similarity[2] * x[2] * k>>)

InitMetrics ==
    /\ NewGame(DailyBoard, 4, MaxStrikes, 0)
    /\ last = CallResult("init", <<>>, FALSE, <<>>)
    /\ pc = "idle"
    /\ solver_kind = "none"
    /\ metrics = [Metrics EXCEPT !.category_similarity = <<0, 1>>]
    /\ previous_guesses = {}
    /\ iterations = 0
    /\ NoAgents

\* metrics.add_solve(level)
MetricsAddSolve ==
    /\ \E level \in 0..(total_levels - 1) : metrics' = add_solve(metrics, level)
    /\ returned' = <<>>
    /\ UNCHANGED <<gameVars, pc, solver_kind, previous_guesses, iterations,
                   attempt, gvc_guesses, sgvc, error_counter, wrong_counter, try_counter, rsa, endpoint, flow>>

\* metrics.cosine_similarity_category(guessed_cat, correct_cat), for a
\* normalized similarity of x
MetricsCosine ==
    /\ \E x \in NormalizedSimilarities :
         IF Len(metrics.solve_order) = 0
         THEN /\ returned' = <<ZeroDivisionError>>
              /\ UNCHANGED metrics
         ELSE /\ metrics.category_similarity[2] * x[2] * Len(metrics.solve_order) <= MaxDenominator
              /\ metrics' = [metrics EXCEPT !.category_similarity =
                                 running_mean(@, Len(metrics.solve_order), x)]
              /\ returned' = <<x>>
    /\ UNCHANGED <<gameVars, pc, solver_kind, previous_guesses, iterations,
                   attempt, gvc_guesses, sgvc, error_counter, wrong_counter, try_counter, rsa, endpoint, flow>>

NextMetrics == MetricsAddSolve \/ MetricsCosine

SpecMetrics == InitMetrics /\ [][NextMetrics]_vars

-----------------------------------------------------------------------------

(* rsallms/metrics.py called directly, with every call of                  *)
(* cosine_similarity_category kept: the similarity it computed and the     *)
(* number of solves it divided by                                          *)

\* the number of cosine_similarity_category calls a run is followed for
MaxCalls == 4

\* one call of cosine_similarity_category: what it returned, or that it raised
SimilarityCall(x, k, raised) == [x |-> x, k |-> k, raised |-> raised]

InitScoring ==
    /\ NewGame(DailyBoard, 4, MaxStrikes, 0)
    /\ last = CallResult("init", <<>>, FALSE, <<>>)
    /\ pc = "scoring"
    /\ solver_kind = "none"
    /\ metrics = [Metrics EXCEPT !.category_similarity = <<0, 1>>]
    /\ previous_guesses = {}
    /\ iterations = 0
    /\ NoAgents

\* metrics.add_solve(level)
ScoringAddSolve ==
    /\ pc = "scoring"
    /\ \E level \in 0..(total_levels - 1) : metrics' = add_solve(metrics, level)
    /\ UNCHANGED <<gameVars, pc, solver_kind, previous_guesses, iterations, agentVars>>

\* metrics.cosine_similarity_category(guessed_cat, correct_cat), for a
\* normalized similarity of x
ScoringCosine ==
    /\ pc = "scoring"
    /\ Len(returned) < MaxCalls
    /\ \E x \in NormalizedSimilarities :
         IF Len(metrics.solve_order) = 0
         THEN /\ returned' = Append(returned, SimilarityCall(x, 0, TRUE))
              /\ UNCHANGED metrics
         ELSE /\ metrics' = [metrics EXCEPT !.category_similarity =
                                 running_mean(@, Len(metrics.solve_order), x)]
              /\ returned' = Append(returned, SimilarityCall(x, Len(metrics.solve_order), FALSE))
    /\ UNCHANGED <<gameVars, pc, solver_kind, previous_guesses, iterations,
                   attempt, gvc_guesses, sgvc, error_counter, wrong_counter, try_counter, rsa,
                   endpoint, flow>>

NextScoring == ScoringAddSolve \/ ScoringCosine

SpecScoring == InitScoring /\ [][NextScoring]_vars

-----------------------------------------------------------------------------

(* solvers/snap_gvc.py: grounding_check called on its own, on the ledgers *)
(* and word banks a play-through can hold                                  *)

\* groups a play-through can have lost with, sorted
FailedGroups ==
    { <<"HAIL", "KAYAK", "RAIN", "SLEET">>,
      <<"HAIL", "HAIL", "RAIN", "SLEET">>,
      <<"BUCKS", "HEAT", "JAZZ", "KAYAK">> }

\* the guesses the check is called with: those handed to the game, a failed
\* group out of order and one in lower case
GroundingGuesses ==
    GuessInputs \cup { <<"SLEET", "RAIN", "KAYAK", "HAIL">>,
                       <<"KAYAK", "JAZZ", "HEAT", "BUCKS">>,
                       <<"hail", "hail", "rain", "sleet">> }

\* the ledgers: any of the failed groups whose words are on the board, in
\* the order insertion_sort_list leaves them in
Ledgers(board) ==
    LET words == UNION {ToSet(board[i].members) : i \in DOMAIN board}
        on_board == {g \in FailedGroups : ToSet(g) \subseteq words}
        ListOf(S) == CHOOSE lst \in [1..Cardinality(S) -> S] :
                        \A i, j \in DOMAIN lst : i # j => lst[i] # lst[j]
    IN  {insertion_sort_list(ListOf(S)) : S \in SUBSET on_board}

\* a game some of whose first categories are solved, and a solver holding a ledger
InitGrounding ==
    /\ \E board \in {DailyBoard, SmallBoard}, maxs \in 1..MaxStrikes :
         /\ max_strikes = maxs
         /\ og_groups = board
         /\ group_size = 4
         /\ \E solved \in 0..(Len(board) - 1) : categories = SubSeq(board, solved + 1, Len(board))
         /\ current_strikes = 0
         /\ starting_strikes = 0
         /\ \E ledger \in Ledgers(board) : sgvc = [NewSGVC EXCEPT !.sorted_failed_guesses = ledger]
    /\ last = CallResult("init", <<>>, FALSE, <<>>)
    /\ pc = "grounding_check"
    /\ solver_kind = "sgvc"
    /\ metrics = Metrics
    /\ previous_guesses = {}
    /\ iterations = 0
    /\ attempt = 0
    /\ returned = <<>>
    /\ gvc_guesses = {}
    /\ error_counter = 0
    /\ wrong_counter = 0
    /\ try_counter = 0
    /\ rsa = NoRSA
    /\ endpoint = NoEndpoint
    /\ flow = NoFlow

\* self.grounding_check(guess, game.all_words, game.group_size): the call and
\* what it returned
GroundingCheck ==
    /\ pc = "grounding_check"
    /\ \E guess \in GroundingGuesses :
         returned' = <<CallResult("grounding_check", guess, FALSE,
                                  grounding_check(sgvc.sorted_failed_guesses, guess,
                                                  all_words, group_size))>>
    /\ UNCHANGED <<gameVars, playVars, attempt, gvc_guesses, sgvc, error_counter,
                   wrong_counter, try_counter, rsa, endpoint, flow>>

NextGrounding == GroundingCheck

SpecGrounding == InitGrounding /\ [][NextGrounding]_vars

-----------------------------------------------------------------------------

(* rsallms/endpoints.py: one call of Endpoint.respond, which answers a     *)
(* rate-limited reply by calling itself                                    *)

\* the depth of calls at which the interpreter raises RecursionError
\* (sys.getrecursionlimit(), 1000 in CPython), scaled down
recursion_limit == 3

\* None, as a value of an optional argument
None == <<>>

\* temperatures, in tenths
Temperatures == {None, <<1>>, <<7>>}

SystemPrompts == {None, <<"You are a literal interpreter of language.">>}

\* the values of an x-ratelimit-reset-* header, and what
\* re.match(r'(?:(\d+)m)?([\d.]+)s', reset_time) makes of them: no match, or
\* the minutes and the seconds (here in hundredths of a second)
ResetTimes == {"7.66s", "2m59.56s", "120ms"}

ParseResetTime(reset_time) ==
    CASE reset_time = "7.66s" -> <<[minutes |-> 0, seconds |-> 766]>>
      [] reset_time = "2m59.56s" -> <<[minutes |-> 2, seconds |-> 5956]>>
      [] OTHER -> <<>>

\* int(response.headers['retry-after']): the number of a string of digits,
\* and no number (a ValueError) for an HTTP date
int(value) == IF value = "2" THEN <<2>> ELSE <<>>

\* timedelta(minutes=minutes, seconds=seconds).total_seconds(), in hundredths
total_seconds(t) == t.minutes * 6000 + t.seconds

\* what requests.post can bring back: a body that is not JSON, a body with an
\* 'error' key under each combination of headers respond looks at, a body
\* without 'choices', and a completion
HttpReply(json, error, headers, choices) ==
    [json |-> json, error |-> error, headers |-> headers, choices |-> choices]

Header(name, value) == [name |-> name, value |-> value]

RateLimitReplies ==
    {HttpReply(TRUE, TRUE, {Header("retry-after", "2")}, FALSE)}
      \cup {HttpReply(TRUE, TRUE, {Header("x-ratelimit-reset-requests", v)}, FALSE) : v \in ResetTimes}
      \cup {HttpReply(TRUE, TRUE, {Header("x-ratelimit-reset-tokens", v)}, FALSE) : v \in ResetTimes}
      \cup {HttpReply(TRUE, TRUE, {Header("retry-after", "2"), Header("x-ratelimit-reset-tokens", "120ms")},
                      FALSE),
            HttpReply(TRUE, TRUE, {Header("retry-after", "Wed, 04 Nov 2026 07:28:00 GMT")}, FALSE)}

HttpReplies ==
    RateLimitReplies
      \cup {HttpReply(FALSE, FALSE, {}, FALSE),
            HttpReply(TRUE, TRUE, {}, FALSE),
            HttpReply(TRUE, FALSE, {}, FALSE),
            HttpReply(TRUE, FALSE, {Header("x-ratelimit-reset-tokens", "7.66s")}, TRUE)}

\* name in response.headers, and response.headers[name]
HasHeader(reply, name) == \E h \in reply.headers : h.name = name

HeaderValue(reply, name) == (CHOOSE h \in reply.headers : h.name = name).value

\* the JSON body respond posts
RequestData(message, system_prompt, temperature) ==
    [messages |-> (IF system_prompt # None
                   THEN <<[role |-> "system", content |-> system_prompt[1]]>>
                   ELSE <<>>) \o <<[role |-> "user", content |-> message]>>,
     temperature |-> temperature,
     max_tokens |-> 1000]

\* Metrics.add_tokens, for the one model of the endpoint
add_tokens(tokens_used, prompt_tokens, completion_tokens) ==
    IF tokens_used # <<>>
    THEN <<[prompt_tokens |-> tokens_used[1].prompt_tokens + prompt_tokens,
            completion_tokens |-> tokens_used[1].completion_tokens + completion_tokens]>>
    ELSE <<[prompt_tokens |-> prompt_tokens, completion_tokens |-> completion_tokens]>>

\* the exceptions respond ends with
RecursionError == [exception |-> "RecursionError", message |-> "maximum recursion depth exceeded"]

ResponseNotJson == [exception |-> "Exception", message |-> "response.text"]

InvalidLiteral == [exception |-> "ValueError", message |-> "invalid literal for int() with base 10"]

InvalidTimeFormat == [exception |-> "ValueError", message |-> "Invalid time format in header"]

ErrorInRequest == [exception |-> "ValueError", message |-> "Error in endpoint request!"]

MalformedResponse == [exception |-> "ValueError", message |-> "Malformed response from endpoint!"]

\* respond is called: a message, an optional system prompt, an optional
\* temperature, and a Metrics object or None
InitRespond ==
    /\ NewGame(DailyBoard, 4, MaxStrikes, 0)
    /\ last = CallResult("init", <<>>, FALSE, <<>>)
    /\ pc = "respond"
    /\ solver_kind = "endpoint"
    /\ metrics = Metrics
    /\ previous_guesses = {}
    /\ iterations = 0
    /\ attempt \in 0..max_retries
    /\ returned = <<>>
    /\ gvc_guesses = {}
    /\ sgvc = NewSGVC
    /\ error_counter = 0
    /\ wrong_counter = 0
    /\ try_counter = 0
    /\ rsa = NoRSA
    /\ flow = NoFlow
    /\ \E system_prompt \in SystemPrompts, temperature \in Temperatures, with_metrics \in BOOLEAN :
         endpoint = [pc |-> "respond",
                     message |-> "message",
                     system_prompt |-> system_prompt,
                     temperature |-> temperature,
                     with_metrics |-> with_metrics,
                     depth |-> 1,
                     requests |-> <<>>,
                     replies |-> <<>>,
                     slept |-> <<>>,
                     tokens_used |-> <<>>]

\* `return self.respond(message, system_prompt, temperature, metrics, retries)`
\* after a sleep of sleep_time (0 where the code does not sleep): one frame
\* deeper, with the temperature as resolved
Retry(e, sleep_time) ==
    IF e.depth + 1 > recursion_limit
    THEN /\ endpoint' = [e EXCEPT !.pc = "raised", !.slept = Append(@, sleep_time)]
         /\ returned' = <<RecursionError>>
         /\ pc' = "respond_raised"
    ELSE /\ endpoint' = [e EXCEPT !.depth = @ + 1, !.slept = Append(@, sleep_time)]
         /\ UNCHANGED <<returned, pc>>

\* respond ends with an exception
RespondRaise(e, exception) ==
    /\ endpoint' = [e EXCEPT !.pc = "raised"]
    /\ returned' = <<exception>>
    /\ pc' = "respond_raised"

\* the body of respond for one frame: the request is posted and the reply
\* is looked at
RespondWith(reply) ==
    LET temperature == IF endpoint.temperature = None THEN <<7>> ELSE endpoint.temperature
        e == [endpoint EXCEPT
                !.temperature = temperature,
                !.requests = Append(@, RequestData(endpoint.message, endpoint.system_prompt,
                                                   temperature)),
                !.replies = Append(@, reply)]
    IN  IF ~reply.json
        THEN RespondRaise(e, ResponseNotJson)
        ELSE IF reply.error
        THEN IF HasHeader(reply, "retry-after")
             THEN IF int(HeaderValue(reply, "retry-after")) = <<>>
                  THEN RespondRaise(e, InvalidLiteral)
                  ELSE Retry(e, int(HeaderValue(reply, "retry-after"))[1] * 100)
             ELSE IF HasHeader(reply, "x-ratelimit-reset-requests")
             THEN IF ParseResetTime(HeaderValue(reply, "x-ratelimit-reset-requests")) = <<>>
                  THEN RespondRaise(e, InvalidTimeFormat)
                  ELSE Retry(e, 0)
             ELSE IF HasHeader(reply, "x-ratelimit-reset-tokens")
             THEN IF ParseResetTime(HeaderValue(reply, "x-ratelimit-reset-tokens")) = <<>>
                  THEN RespondRaise(e, InvalidTimeFormat)
                  ELSE Retry(e, total_seconds(
                                    ParseResetTime(HeaderValue(reply, "x-ratelimit-reset-tokens"))[1]))
             ELSE RespondRaise(e, ErrorInRequest)
        ELSE IF ~reply.choices
        THEN RespondRaise(e, MalformedResponse)
        ELSE /\ endpoint' = [e EXCEPT
                               !.pc = "returned",
                               !.tokens_used = IF e.with_metrics THEN add_tokens(@, 40, 10) ELSE @]
             /\ returned' = <<Returns("content")>>
             /\ pc' = "respond_return"

Respond ==
    /\ pc = "respond"
    /\ \E reply \in HttpReplies : RespondWith(reply)
    /\ UNCHANGED <<gameVars, solver_kind, metrics, previous_guesses, iterations,
                   attempt, gvc_guesses, sgvc, error_counter, wrong_counter, try_counter, rsa, flow>>

NextRespond == Respond

SpecRespond == InitRespond /\ [][NextRespond]_vars

-----------------------------------------------------------------------------

(* rsallms/stateflow.py: StateFlowGame.run, one handler per turn of its    *)
(* loop, for what Alice and Bob reply                                      *)

\* what Bob can answer for the candidate words, as the words json.loads or
\* the regular expression finds in the reply: the candidate words, the same
\* in another order, in lower case, with a fifth word after them, with one of
\* them replaced by another word of the board or by a word that is not on
\* the board, and nothing
BobReplies(current_candidate_words) ==
    {current_candidate_words,
     <<current_candidate_words[4], current_candidate_words[3],
       current_candidate_words[2], current_candidate_words[1]>>,
     <<"hail", "rain", "sleet", "snow">>,
     current_candidate_words \o <<"TAB">>,
     SubSeq(current_candidate_words, 1, 3) \o <<"MOM">>,
     SubSeq(current_candidate_words, 1, 3) \o <<"PIZZA">>,
     <<>>}

\* StateFlowGame.parse_bob_response: the words of the reply, in upper case,
\* that are words of the board, and of these the first four
parse_bob_response(response, board_words) ==
    LET OnBoard(word) == \E i \in DOMAIN board_words : Normalize(board_words[i]) = word
        words == SelectSeq(NormalizeAll(response), OnBoard)
    IN  SubSeq(words, 1, IF Len(words) < 4 THEN Len(words) ELSE 4)

\* `for word in words: if word in remaining_words: remaining_words.remove(word)`
RECURSIVE RemoveWords(_, _)
RemoveWords(remaining_words, words) ==
    IF words = <<>>
    THEN remaining_words
    ELSE RemoveWords(IF IndexOf(remaining_words, Head(words)) # 0
                     THEN RemoveAt(remaining_words, IndexOf(remaining_words, Head(words)))
                     ELSE remaining_words,
                     Tail(words))

\* no category is taken out
WithoutMembers_keeps_all(cats, members) == cats

\* the categories that are left when every category with these members is taken out
WithoutMembers(cats, members) ==
    SelectSeq(cats, LAMBDA cat : cat.members # members)

\* StateFlowGame(game), for a game that is fresh or has been played: some of
\* its categories, or all of them, may be solved already
InitFlow ==
    /\ \E board \in Boards :
         /\ og_groups = board
         /\ \E solved \in 0..Len(board) : categories = SubSeq(board, solved + 1, Len(board))
         /\ \E maxs \in {MaxStrikes} : max_strikes = maxs
    /\ group_size = 4
    /\ current_strikes = 0
    /\ starting_strikes = 0
    /\ last = CallResult("init", <<>>, FALSE, <<>>)
    /\ pc = "run"
    /\ solver_kind = "stateflow"
    /\ metrics = Metrics
    /\ previous_guesses = {}
    /\ iterations = 0
    /\ attempt = 0
    /\ returned = <<>>
    /\ gvc_guesses = {}
    /\ sgvc = NewSGVC
    /\ error_counter = 0
    /\ wrong_counter = 0
    /\ try_counter = 0
    /\ rsa = NoRSA
    /\ endpoint = NoEndpoint
    /\ flow = [state |-> "INITIALIZATION",
               strikes |-> 0,
               max_strikes |-> 3,
               all_words |-> all_words,
               remaining_words |-> all_words,
               current_candidate_words |-> <<>>,
               current_category |-> "",
               current_category_level |-> 0,
               bob_predicted_words |-> <<>>]

FlowUnchanged ==
    UNCHANGED <<og_groups, group_size, max_strikes, starting_strikes, current_strikes, last,
                pc, solver_kind, previous_guesses, iterations,
                attempt, returned, gvc_guesses, sgvc, error_counter, wrong_counter, try_counter,
                rsa, endpoint>>

\* StateFlowGame.initialize
initialize ==
    /\ flow.state = "INITIALIZATION"
    /\ flow' = [flow EXCEPT !.state = "CATEGORY_GENERATION"]
    /\ UNCHANGED <<categories, metrics>>
    /\ FlowUnchanged

\* StateFlowGame.category_generation: a category is drawn with random.choice
\* and Alice names it
category_generation ==
    /\ flow.state = "CATEGORY_GENERATION"
    /\ IF categories = <<>>
       THEN flow' = [flow EXCEPT !.state = "TERMINATION"]
       ELSE \E i \in DOMAIN categories, alice_response \in {"WEATHER", "TEAMS"} :
               flow' = [flow EXCEPT !.current_candidate_words = categories[i].members,
                                    !.current_category_level = categories[i].level,
                                    !.current_category = alice_response,
                                    !.state = "WORD_PREDICTION"]
    /\ UNCHANGED <<categories, metrics>>
    /\ FlowUnchanged

\* StateFlowGame.word_prediction
word_prediction ==
    /\ flow.state = "WORD_PREDICTION"
    /\ \E bob_response \in BobReplies(flow.current_candidate_words) :
         flow' = [flow EXCEPT !.bob_predicted_words = parse_bob_response(bob_response, flow.all_words),
                              !.state = "EVALUATION"]
    /\ UNCHANGED <<categories, metrics>>
    /\ FlowUnchanged

\* StateFlowGame.evaluation
evaluation ==
    /\ flow.state = "EVALUATION"
    /\ IF ToSet(flow.bob_predicted_words) = ToSet(NormalizeAll(flow.current_candidate_words))
       THEN /\ IF \E i \in DOMAIN og_groups :
                       ToSet(og_groups[i].members) = ToSet(flow.current_candidate_words)
               THEN \E x \in Similarities :
                       metrics' = cosine_similarity_category(
                                      add_solve(metrics, flow.current_category_level), x)
               ELSE metrics' = add_solve(metrics, flow.current_category_level)
            /\ categories' = WithoutMembers(categories, flow.current_candidate_words)
            /\ flow' = [flow EXCEPT
                          !.remaining_words = RemoveWords(@, flow.current_candidate_words),
                          !.state = IF RemoveWords(flow.remaining_words,
                                                   flow.current_candidate_words) = <<>>
                                       \/ categories' = <<>>
                                    THEN "TERMINATION" ELSE "CATEGORY_GENERATION"]
       ELSE /\ metrics' = hallucination_words(increment_failed_guesses(metrics),
                                              flow.bob_predicted_words, flow.all_words)
            /\ flow' = [flow EXCEPT
                          !.strikes = @ + 1,
                          !.state = IF flow.strikes + 1 >= flow.max_strikes
                                    THEN "TERMINATION" ELSE "CATEGORY_GENERATION"]
            /\ UNCHANGED categories
    /\ FlowUnchanged

NextFlow == initialize \/ category_generation \/ word_prediction \/ evaluation

SpecFlow == InitFlow /\ [][NextFlow]_vars

-----------------------------------------------------------------------------

(* The three play drivers side by side *)

InitDrivers == InitPlay \/ InitGVC \/ InitSGVC

NextDrivers == NextPlay \/ NextGVC \/ NextSGVC

SpecDrivers == InitDrivers /\ [][NextDrivers]_vars

-----------------------------------------------------------------------------
(* Properties of the game *)

\* some active category has exactly these words, as sets
SomeActiveHas(words) ==
    \E i \in DOMAIN categories : ToSet(categories[i].members) = ToSet(words)

\* C1: a game constructed with starting_strikes <= max_strikes never has more
\* strikes than max_strikes, after any calls of category_guess_check and reset
C1_StrikesBounded ==
    starting_strikes <= max_strikes => current_strikes <= max_strikes

\* a call came in with the strikes at the limit and was refused
C1_Witness ==
    /\ starting_strikes <= max_strikes
    /\ current_strikes = max_strikes
    /\ last.op = "guess" /\ last.raised

\* C2: a call of category_guess_check removes at most one active category; the
\* one removed is the one returned, its members equal the words as sets, and
\* the other active categories stay as they were, in the same order
C2_RemovesAtMostOne ==
    [][last'.op = "guess" =>
          \/ categories' = categories /\ last'.ret = <<>>
          \/ \E i \in DOMAIN categories :
                /\ categories' = RemoveAt(categories, i)
                /\ last'.ret = <<categories[i]>>
                /\ ToSet(categories[i].members) = ToSet(last'.words)]_vars

\* a call removed the second of three active categories
C2_Witness ==
    /\ last.op = "guess" /\ last.ret # <<>>
    /\ og_groups = DailyBoard
    /\ categories = <<DailyBoard[1], DailyBoard[3]>>
    /\ last.ret[1] = DailyBoard[2]

\* C3: with strikes < max_strikes, a call whose words match no active category
\* adds exactly one strike, returns None without raising and leaves the active
\* categories alone; a call whose words match leaves the strikes alone
C3_WrongGuessStrikes ==
    [][last'.op = "guess" /\ current_strikes < max_strikes =>
          IF SomeActiveHas(last'.words)
          THEN current_strikes' = current_strikes
          ELSE /\ current_strikes' = current_strikes + 1
               /\ last'.ret = <<>> /\ ~last'.raised
               /\ categories' = categories]_vars

\* a wrong guess was made below the limit and counted
C3_Witness ==
    /\ last.op = "guess" /\ ~last.raised /\ last.ret = <<>>
    /\ ~SomeActiveHas(last.words)
    /\ current_strikes = starting_strikes + 1
    /\ current_strikes <= max_strikes

\* C4: with strikes >= max_strikes every call of category_guess_check raises
\* GameOverException, whatever its words, and changes neither the active
\* categories nor the strikes
C4_GameOverRaises ==
    [][last'.op = "guess" /\ current_strikes >= max_strikes =>
          /\ last'.raised
          /\ categories' = categories
          /\ current_strikes' = current_strikes]_vars

\* a call whose words equal an active category was refused
C4_Witness ==
    /\ last.op = "guess" /\ last.raised
    /\ SomeActiveHas(last.words)
    /\ current_strikes >= max_strikes

\* C5: a reset makes the active categories equal to the original snapshot and
\* the strikes 0, and no step changes the original snapshot
C5_ResetRestores ==
    [][/\ og_groups' = og_groups
       /\ last'.op = "reset" =>
             categories' = og_groups /\ current_strikes' = 0]_vars

\* C6: is_over is strikes >= max_strikes or no active category; a call of
\* category_guess_check made when the game is over leaves it over, and a step
\* from over to not over is a reset
C6_OverIsTerminal ==
    [][/\ is_over <=> (current_strikes >= max_strikes \/ Len(categories) = 0)
       /\ is_over' <=> (current_strikes' >= max_strikes \/ Len(categories') = 0)
       /\ (current_strikes >= max_strikes \/ Len(categories) = 0) /\ last'.op = "guess" =>
             (current_strikes' >= max_strikes \/ Len(categories') = 0)
       /\ is_over /\ ~is_over' => last'.op = "reset"]_vars

\* a solved game took a further, wrong guess and is still over
C6_Witness ==
    /\ is_solved /\ is_over
    /\ last.op = "guess" /\ ~last.raised /\ last.ret = <<>>
    /\ current_strikes < max_strikes

-----------------------------------------------------------------------------
(* Properties of Solver.play *)

\* C8: every iteration of Solver.play removes one active category or adds
\* exactly one strike, the iterations number at most (max_strikes -
\* starting_strikes) + (number of categories), and play reaches its return
\* with the game over
C8_PlayTerminates ==
    /\ [][/\ (iterations' = iterations + 1 =>
                 \/ /\ Len(categories') = Len(categories) - 1
                    /\ current_strikes' = current_strikes
                 \/ /\ categories' = categories
                    /\ current_strikes' = current_strikes + 1)
           /\ iterations' <= (max_strikes - starting_strikes) + Len(og_groups)
           /\ (pc' = "play_return" => is_over')]_vars
    /\ <>(pc = "play_return" /\ is_over)

\* play returned after wrong and right guesses, as many as a game allows
C8_Witness ==
    /\ pc = "play_return"
    /\ iterations = (max_strikes - starting_strikes) + Len(og_groups) - 1
    /\ metrics.failed_guesses >= 2
    /\ Len(metrics.solve_order) >= 2

\* C10: on a fresh game of four disjoint categories, a Solver whose guess is
\* always the members of the first remaining category ends play with every
\* category solved, solve_rate 100, no failed guess, no strike, and
\* solve_order [0, 1, 2, 3]
C10_PerfectSolver ==
    LET perfect == /\ solver_kind = "first_remaining"
                   /\ og_groups = DailyBoard
                   /\ starting_strikes = 0
        finished == /\ solve_rate(metrics) = 100
                    /\ metrics.solve_order = <<0, 1, 2, 3>>
                    /\ \A i \in DOMAIN og_groups : solved_categories[i]
    IN  perfect =>
          /\ pc # "play_raised"
          /\ current_strikes = 0
          /\ metrics.failed_guesses = 0
          /\ (pc = "play_return" => finished)

\* the perfect solver finished the daily board
C10_Witness ==
    /\ solver_kind = "first_remaining"
    /\ og_groups = DailyBoard
    /\ starting_strikes = 0
    /\ pc = "play_return"
    /\ iterations = 4

-----------------------------------------------------------------------------
(* Properties of the play drivers *)

\* C7: Solver.play, GVCSolver.play and SGVCSolver.play (conservative and snap
\* phase) call category_guess_check only in states where is_over is false, and
\* no call of a play-through raises GameOverException
C7_DriversGuessOnlyWhileActive ==
    [][(iterations' = iterations + 1) => (~is_over /\ ~last'.raised)]_vars

\* SGVCSolver.play has returned from a game that its own guesses drove to the
\* strike limit, the last of them in the snap phase, and no call was refused
C7_Witness ==
    /\ pc = "sgvc_return"
    /\ current_strikes = max_strikes
    /\ iterations >= max_strikes
    /\ last.op = "guess" /\ ~last.raised
    /\ error_counter > 0

\* C9: SGVCSolver.play terminates whatever the roles reply: every run of play
\* reaches its return
C9_SgvcPlayTerminates == <>(pc = "sgvc_return")

\* C11: on a fresh game, a Solver whose guess never matches a category ends
\* play in the OVER state after exactly max_strikes wrong guesses:
\* failed_guesses = max_strikes = current_strikes, is_solved false and no
\* category removed
C11_NeverMatchingEndsOver ==
    LET never == solver_kind = "never_matching" /\ starting_strikes = 0
    IN  /\ [](never /\ pc = "play_return" =>
                 /\ is_over /\ ~is_solved
                 /\ current_strikes = max_strikes
                 /\ metrics.failed_guesses = max_strikes
                 /\ iterations = max_strikes
                 /\ categories = og_groups)
        /\ [](never => pc # "play_raised")
        /\ (never => <>(pc = "play_return"))

\* play returned from the daily board after two or more wrong guesses of the
\* never-matching Solver
C11_Witness ==
    /\ solver_kind = "never_matching" /\ starting_strikes = 0
    /\ pc = "play_return"
    /\ og_groups = DailyBoard
    /\ max_strikes >= 2
    /\ metrics.failed_guesses = max_strikes
    /\ previous_guesses = {<<"HAIL", "RAIN", "SLEET", "KAYAK">>}

-----------------------------------------------------------------------------
(* Properties of the negotiation protocols *)

\* the group a proposer's reply stands for: its words normalized and sorted
Proposed(gr) == sorted(NormalizeAll(gr.group))

\* the three structural rules, on a normalized and sorted group: every word
\* is in the remaining words, there are group_size of them, and the group is
\* not an entry of the ledger of failed guesses
Grounded(g) ==
    /\ ToSet(g) \subseteq ToSet(all_words)
    /\ Len(g) = group_size
    /\ \A i \in DOMAIN sgvc.sorted_failed_guesses : sgvc.sorted_failed_guesses[i] # g

\* the validator's replies that agree
Agreeing == {vr \in ValidatorReplies : vr.parsed /\ vr.agreement}

\* C12: with a validator that agrees, guess returns in the round of the first
\* grounded proposal, round 1 when the first proposal is grounded, after that
\* one exchange, with the proposed group and the proposer's category label
\* (snap_gvc.py; in gvc_2.py, which has no grounding check, with the first
\* proposal); the reply of a round that parsed is the one kept in last_guess
C12_AgreeingValidatorConverges ==
    [][/\ (pc = "sgvc_round" /\ sgvc'.last_guess # <<>>) =>
             \A gr \in {Reply(sgvc'.last_guess[1].group, sgvc'.last_guess[1].category)} :
             \A g \in {Proposed(gr)}, vr \in Agreeing :
                SgvcRoundWith(gr, vr) =>
                   IF Grounded(g)
                   THEN /\ pc' = "sgvc_ret"
                        /\ attempt' = attempt
                        /\ returned' = <<[guess |-> g, reasoning |-> gr.category]>>
                   ELSE \/ pc' = "sgvc_round" /\ attempt' = attempt + 1
                        \/ /\ pc' = "sgvc_ret" /\ attempt = max_retries
                           /\ returned' = <<NoneReturn>>
       /\ pc = "gvc2_round" =>
             \A gr \in Gvc2GuesserReplies, vr \in Agreeing :
                (Gvc2RoundWith(gr, vr) /\ gr.parsed) =>
                    /\ pc' = "gvc2_ret"
                    /\ attempt' = attempt
                    /\ returned' = <<[guess |-> gr.group, reasoning |-> gr.category]>>]_vars

\* guess returned from round 1 of a turn that follows a failed guess, with the
\* lower-case proposal the validator agreed to, normalized and sorted
C12_Witness ==
    /\ pc = "sgvc_ret"
    /\ attempt = 1
    /\ sgvc.sorted_failed_guesses # <<>>
    /\ sgvc.last_guess = <<[group |-> <<"snow", "sleet", "rain", "hail">>, category |-> "WET WEATHER"]>>
    /\ sgvc.validator_dict # <<>> /\ sgvc.validator_dict[1].agreement
    /\ returned = <<[guess |-> <<"HAIL", "RAIN", "SLEET", "SNOW">>, reasoning |-> "WET WEATHER"]>>

\* C13: when the roles never agree (and every reply parses), guess ends after
\* exactly max_retries rounds and hands back a fallback result; it does not
\* raise. Of GVCSolver.guess of gvc.py: no turn ends with the ValueError of the
\* last attempt
C13_ExhaustionReturnsFallback ==
    returned # <<NoConsensus>>

\* the validator's replies that disagree
Disagreeing == {vr \in ValidatorReplies : vr.parsed /\ ~vr.agreement}

\* C14: when the rounds of a turn run out without agreement, the group guess
\* returns is the last proposal of the turn that passed the grounding check.
\* Of SGVCSolver.guess, for a last round whose proposal is grounded and
\* refused by the validator: that proposal is what guess returns
C14_ExhaustionReturnsLastGrounded ==
    [][(pc = "sgvc_round" /\ attempt = max_retries /\ sgvc'.last_guess # <<>>) =>
          \A gr \in {Reply(sgvc'.last_guess[1].group, sgvc'.last_guess[1].category)} :
          \A g \in {Proposed(gr)}, vr \in Disagreeing :
             (SgvcRoundWith(gr, vr) /\ Grounded(g) /\ Len(all_words) # group_size) =>
                 /\ pc' = "sgvc_ret"
                 /\ returned' = <<[guess |-> g, reasoning |-> gr.category]>>]_vars

\* C15: every group SGVCSolver.guess or snap_guess returns as a guess, that
\* is, not the Error or None sentinel, has exactly group_size words, all
\* distinct and all in the remaining words
C15_ReturnedGroupWellFormed ==
    (pc \in {"sgvc_ret", "sgvc_snap_ret"} /\ returned[1] \notin {ErrorReturn, NoneReturn}) =>
        LET g == returned[1].guess
        IN  /\ Len(g) = group_size
            /\ Cardinality(ToSet(g)) = group_size
            /\ ToSet(g) \subseteq ToSet(all_words)

-----------------------------------------------------------------------------
(* Properties of the LLM-backed solvers *)

\* C16: when an LLM-backed Solver produces a structurally invalid group (the
\* wrong number of words, words that are not on the board, nothing
\* extractable), play counts the turn as a failed guess, one strike and one
\* failed guess more, and goes on; it does not end with an exception
C16_InvalidGroupIsFailedGuess ==
    [][pc = "play_body" =>
          /\ pc' = "play_while"
          /\ (categories' = categories =>
                 /\ current_strikes' = current_strikes + 1
                 /\ metrics'.failed_guesses = metrics.failed_guesses + 1)]_vars

\* C17: a role's malformed reply is retried at most once: after the first
\* the turn is tried again at no cost, and after the second the turn counts
\* as a wrong guess, one strike and one failed guess more, and the game goes on
C17_MalformedTwiceIsWrongGuess ==
    [][(pc = "sgvc_ret" /\ returned = <<ErrorReturn>>) =>
          IF error_counter + 1 < max_conservative_round_errors
          THEN /\ pc' = "sgvc_cons"
               /\ current_strikes' = current_strikes
               /\ metrics'.failed_guesses = metrics.failed_guesses
          ELSE /\ current_strikes' = current_strikes + 1
               /\ metrics'.failed_guesses = metrics.failed_guesses + 1]_vars

\* C18: within one play-through SGVCSolver never submits a group that, once
\* normalized and sorted, equals a group the game has already rejected, and
\* so the entries of the sorted ledger of failed guesses are pairwise distinct
C18_NoRepeatedLosingGuess ==
    [][/\ (solver_kind = "sgvc" /\ iterations' = iterations + 1) =>
             \A prev \in previous_guesses :
                sorted(NormalizeAll(prev)) # sorted(NormalizeAll(last'.words))
       /\ \A i, j \in DOMAIN sgvc'.sorted_failed_guesses :
             i # j => sgvc'.sorted_failed_guesses[i] # sgvc'.sorted_failed_guesses[j]]_vars

\* two groups have failed, and a proposal that repeats one of them has just
\* been turned down by the grounding check
C18_Witness ==
    /\ pc = "sgvc_round"
    /\ Len(sgvc.sorted_failed_guesses) = 2
    /\ Cardinality(previous_guesses) = 2
    /\ sgvc.prev_validator_feedback_if_rejected = <<Repeats>>

-----------------------------------------------------------------------------
(* Properties of the exhaustive search *)

\* the number of k-element subsets of an n-element set
RECURSIVE Binomial(_, _)
Binomial(n, k) ==
    IF k = 0 THEN 1 ELSE IF n = 0 THEN 0 ELSE Binomial(n - 1, k - 1) + Binomial(n - 1, k)

\* the for loop of RSASolver.guess is over, on a bank of at least group_size words
RsaLoopOver ==
    /\ solver_kind = "rsa"
    /\ pc \in {"rsa_pop", "rsa_return", "rsa_raised"}
    /\ Len(rsa.word_bank) >= rsa.group_size

\* C19: on a bank of n distinct words with n >= k, _generate_groups runs to
\* its end without an error and has yielded exactly C(n,k) groups, each of k
\* distinct words of the bank, no two of them the same set, and the same
\* sequence a second invocation yields.
C19_GeneratesEveryGroupOnce ==
    RsaLoopOver =>
        /\ returned # <<RuntimeError>>
        /\ Len(rsa.proposed) = Binomial(Len(rsa.word_bank), rsa.group_size)
        /\ \A i \in DOMAIN rsa.proposed :
             /\ Len(rsa.proposed[i]) = rsa.group_size
             /\ Cardinality(ToSet(rsa.proposed[i])) = rsa.group_size
             /\ ToSet(rsa.proposed[i]) \subseteq ToSet(rsa.word_bank)
        /\ \A i, j \in DOMAIN rsa.proposed :
             i # j => ToSet(rsa.proposed[i]) # ToSet(rsa.proposed[j])
        /\ rsa.proposed = _generate_groups(rsa.word_bank, rsa.group_size).yielded

\* C20: a call of RSASolver.guess on a bank of at least group_size words ends
\* by returning a group whose cost is the smallest of all the groups
\* enumerated, and among the groups of that cost the one enumerated first.
C20_ReturnsCheapestEarliest ==
    (RsaLoopOver /\ pc # "rsa_pop") =>
        /\ pc = "rsa_return"
        /\ returned = <<Returns(rsa.most_correct_guess[2])>>
        /\ \A j \in DOMAIN rsa.error_heap :
             LET other == rsa.error_heap[j]
             IN  /\ rsa.most_correct_guess[1] <= other[1]
                 /\ other[1] = rsa.most_correct_guess[1] =>
                        IndexOf(rsa.proposed, rsa.most_correct_guess[2])
                            < IndexOf(rsa.proposed, other[2])

-----------------------------------------------------------------------------
(* Properties of the metrics recorded by play *)

\* the words of the full board: the members of the original categories
FullBoardWords == UNION {ToSet(og_groups[i].members) : i \in DOMAIN og_groups}

\* C21: every wrong guess recorded by play adds to hallucinated_words the
\* number of its words that are on none of the original categories, so that a
\* word of an already solved category adds nothing; a correct guess leaves
\* the count as it was.
C21_HallucinatedAreOffTheFullBoard ==
    [][(pc = "play_body" /\ pc' = "play_while") =>
          metrics'.hallucinated_words =
              metrics.hallucinated_words +
                  (IF last'.ret = <<>>
                   THEN Cardinality({i \in DOMAIN last'.words : last'.words[i] \notin FullBoardWords})
                   ELSE 0)]_vars

\* C22: a guess whose words are the members of an active category up to
\* letter case is matched by category_guess_check: the call returns a
\* category.
C22_MatchIgnoresCase ==
    [][(/\ last'.op = "guess"
        /\ ~last'.raised
        /\ \E i \in DOMAIN categories :
              ToSet(NormalizeAll(last'.words)) = ToSet(NormalizeAll(categories[i].members)))
          => last'.ret # <<>>]_vars

-----------------------------------------------------------------------------
(* Properties of the constructor *)

\* C23: in every state of a game that was constructed, every category of the
\* original snapshot and of the active set has exactly group_size members; a
\* constructor call that raised left no game behind.
C23_EveryCategoryHasGroupSize ==
    /\ GameMade =>
          /\ og_groups # <<>>
          /\ \A i \in DOMAIN og_groups : Len(og_groups[i].members) = group_size
          /\ \A i \in DOMAIN categories : Len(categories[i].members) = group_size
    /\ ~GameMade => og_groups = <<>> /\ categories = <<>>

\* a game of three-member categories after a solve and a wrong guess
C23_Witness ==
    /\ GameMade
    /\ group_size = 3
    /\ Len(categories) < Len(og_groups)
    /\ current_strikes > starting_strikes

-----------------------------------------------------------------------------
(* Properties of the Metrics accumulator called directly *)

\* C24: with every normalized similarity between 0 and 1, category_similarity
\* is between 0 and 1 after any sequence of add_solve and
\* cosine_similarity_category calls.
C24_SimilarityWithinUnitInterval ==
    /\ metrics.category_similarity[2] > 0
    /\ 0 <= metrics.category_similarity[1]
    /\ metrics.category_similarity[1] <= metrics.category_similarity[2]

\* three solves recorded and a mean of 5/6: similarities 1, 1/2 and 1 in turn
C24_Witness ==
    /\ Len(metrics.solve_order) = 3
    /\ metrics.category_similarity = <<5, 6>>
    /\ returned = <<<<1, 1>>>>

-----------------------------------------------------------------------------
(* Properties of the negotiation round *)

\* C25: a round of SGVCSolver.guess whose proposal fails one of the three
\* structural rules does not ask the validator (its outcome is the same for
\* every reply the validator could give, and validator_dict is left alone),
\* ends as a rejection (the group goes into the rejected buffer and no guess
\* is returned), and leaves the grounding error, a non-empty message, as the
\* feedback of the next round.
C25_UngroundedSkipsValidator ==
    [][(pc = "sgvc_round" /\ sgvc'.last_guess # <<>>) =>
          \A gr \in {Reply(sgvc'.last_guess[1].group, sgvc'.last_guess[1].category)} :
          \A g \in {Proposed(gr)} :
             ((\E vr \in ValidatorReplies : SgvcRoundWith(gr, vr)) /\ ~Grounded(g)) =>
                 /\ \A vr \in ValidatorReplies : SgvcRoundWith(gr, vr)
                 /\ sgvc'.validator_dict = sgvc.validator_dict
                 /\ \E i \in DOMAIN sgvc'.rejected_guesses_buffer :
                       sgvc'.rejected_guesses_buffer[i] = g
                 /\ \/ pc' = "sgvc_round" /\ attempt' = attempt + 1
                    \/ pc' = "sgvc_ret" /\ attempt = max_retries /\ returned' = <<NoneReturn>>
                 /\ sgvc'.prev_validator_feedback_if_rejected
                        \in {<<NotInRemaining>>, <<WrongSize>>, <<Repeats>>}
                 /\ sgvc'.prev_validator_feedback_if_rejected # <<"">>]_vars

\* the second round of a turn whose first proposal held a word that is not
\* among the remaining words; the validator has not been asked
C25_Witness ==
    /\ pc = "sgvc_round"
    /\ attempt = 2
    /\ sgvc.prev_validator_feedback_if_rejected = <<NotInRemaining>>
    /\ sgvc.rejected_guesses_buffer # <<>>
    /\ sgvc.validator_dict = <<>>

-----------------------------------------------------------------------------
(* Properties of grounding_check *)

\* C26: grounding_check returns True exactly when every word of the guess,
\* normalized, is among the remaining words, the guess has group_size words,
\* and the guess, normalized and sorted, is no entry of the ledger of failed
\* guesses; the call leaves the solver and the game as they were.
C26_GroundedIffThreeRules ==
    [][pc = "grounding_check" =>
          /\ returned'[1].ret[1] <=> Grounded(sorted(NormalizeAll(returned'[1].words)))
          /\ sgvc' = sgvc
          /\ UNCHANGED gameVars]_vars

\* a failed group proposed again in another order is refused by rule 3 while
\* the ledger holds two entries
C26_Witness ==
    /\ pc = "grounding_check"
    /\ returned # <<>>
    /\ returned[1].words = <<"SLEET", "RAIN", "KAYAK", "HAIL">>
    /\ returned[1].ret = <<FALSE, Repeats>>
    /\ Len(sgvc.sorted_failed_guesses) = 2

-----------------------------------------------------------------------------
(* Properties of the rejected buffer *)

\* a round of guess that ended as a rejection: guess goes on to the next
\* round, or returns the None sentinel at the last one
RoundRejected ==
    /\ pc = "sgvc_round"
    /\ sgvc'.last_guess # <<>>
    /\ pc' = "sgvc_round" \/ returned' = <<NoneReturn>>

\* the group a round proposed, as guess holds it: normalized and sorted
RoundGroup == Proposed(Reply(sgvc'.last_guess[1].group, sgvc'.last_guess[1].category))

\* how many entries of lst are x
Occurrences(lst, x) == Cardinality({i \in DOMAIN lst : lst[i] = x})

-----------------------------------------------------------------------------
(* Properties of the ledger of failed guesses *)

\* a step on which the game counted a wrong guess
WrongGuessStep == current_strikes' = current_strikes + 1

\* C28: until play's closing reset(), every wrong guess, of the negotiation
\* phase or of the snap phase, adds exactly one entry to sorted_failed_guesses
\* and keeps the entries it had, no other step changes the ledger, and the
\* ledger is in ascending order after every step; its length is the number of
\* failed guesses counted by the metrics.
C28_LedgerGrowsSortedWithFailures ==
    [][(solver_kind = "sgvc" /\ pc' # "sgvc_return") =>
          /\ Len(sgvc'.sorted_failed_guesses) = metrics'.failed_guesses
          /\ \A i, j \in DOMAIN sgvc'.sorted_failed_guesses :
                i < j => ~GroupLess(sgvc'.sorted_failed_guesses[j], sgvc'.sorted_failed_guesses[i])
          /\ IF WrongGuessStep
             THEN /\ Len(sgvc'.sorted_failed_guesses) = Len(sgvc.sorted_failed_guesses) + 1
                  /\ \A x \in ToSet(sgvc'.sorted_failed_guesses) :
                        Occurrences(sgvc'.sorted_failed_guesses, x) =
                            Occurrences(sgvc.sorted_failed_guesses, x)
                                + (IF x = sorted(last'.words) THEN 1 ELSE 0)
             ELSE sgvc'.sorted_failed_guesses = sgvc.sorted_failed_guesses]_vars

\* one wrong guess in the negotiation phase and one in the snap phase, with no
\* category solved: the ledger holds both
C28_Witness ==
    /\ pc = "sgvc_snap"
    /\ wrong_counter = 1
    /\ categories = og_groups
    /\ metrics.failed_guesses = 2
    /\ Len(sgvc.sorted_failed_guesses) = 2
    /\ last.ret = <<>>

-----------------------------------------------------------------------------
(* Properties of the memory kept across turns *)

\* the memory kept across turns has lost nothing on a step: every ledger
\* entry is still there as often, every label of failed_guesses is still a
\* key, and every label of the guesses map still has its groups, in order
MemoryKept ==
    /\ \A x \in ToSet(sgvc.sorted_failed_guesses) :
          Occurrences(sgvc'.sorted_failed_guesses, x) >= Occurrences(sgvc.sorted_failed_guesses, x)
    /\ \A i \in DOMAIN sgvc.failed_guesses :
          \E j \in DOMAIN sgvc'.failed_guesses :
             sgvc'.failed_guesses[j][1] = sgvc.failed_guesses[i][1]
    /\ \A i \in DOMAIN sgvc.guesses :
          \E j \in DOMAIN sgvc'.guesses :
             /\ sgvc'.guesses[j][1] = sgvc.guesses[i][1]
             /\ Len(sgvc'.guesses[j][2]) >= Len(sgvc.guesses[i][2])
             /\ SubSeq(sgvc'.guesses[j][2], 1, Len(sgvc.guesses[i][2])) = sgvc.guesses[i][2]

\* the state kept within a turn is as reset_agents_state leaves it
TurnStateCleared(s) ==
    /\ s.guesser_past_understandings = <<>>
    /\ s.last_guess = <<>>
    /\ s.rejected_guesses_buffer = <<>>
    /\ s.prev_validator_feedback_if_rejected = <<>>
    /\ s.validator_dict = <<>>
    /\ s.feedback = <<>>
    /\ s.snap_correct = FALSE

\* C29: the ledger, failed_guesses and the guesses map lose nothing on any
\* step of a play-through but the reset() that ends it; the steps that end a
\* turn with reset_agents_state clear the per-turn state and keep all three,
\* with the failed guess of the turn added; reset() leaves all three empty
\* and the per-turn state cleared.
C29_MemoryClearedOnlyByReset ==
    [][solver_kind = "sgvc" =>
          /\ pc' # "sgvc_return" => MemoryKept
          /\ (pc \in {"sgvc_ret", "sgvc_snap_ret"} /\ TurnStateCleared(sgvc')) =>
                /\ MemoryKept
                /\ sgvc'.guesses = sgvc.guesses
                /\ ~WrongGuessStep =>
                      /\ sgvc'.sorted_failed_guesses = sgvc.sorted_failed_guesses
                      /\ sgvc'.failed_guesses = sgvc.failed_guesses
          /\ pc' = "sgvc_return" =>
                /\ sgvc'.sorted_failed_guesses = <<>>
                /\ sgvc'.failed_guesses = <<>>
                /\ sgvc'.guesses = <<>>
                /\ TurnStateCleared(sgvc')]_vars

\* a new turn starts after a turn that lost with an accepted group: the
\* per-turn state is cleared, the ledger and the two maps hold the guess
C29_Witness ==
    /\ pc = "sgvc_round"
    /\ attempt = 1
    /\ TurnStateCleared(sgvc)
    /\ sgvc.sorted_failed_guesses # <<>>
    /\ sgvc.failed_guesses # <<>>
    /\ sgvc.guesses # <<>>

-----------------------------------------------------------------------------
(* Properties of the two phases of SGVCSolver.play *)

\* a step on which the game accepted a guess
CorrectGuessStep == Len(categories') < Len(categories)

\* C30: play leaves the negotiation phase with the game still on only at the
\* end of a turn that failed, and only when that turn was the third wrong
\* guess with no correct one in between, the second turn of the phase with a
\* malformed reply, or a turn that ran out of rounds; a wrong guess before
\* the third sends play to another negotiation turn; a correct guess sets the
\* count of wrong guesses back to 0; in the snap phase a wrong guess is
\* followed by another snap guess, and play goes back to negotiation after the
\* first correct snap guess and not before, unless the game is over.
C30_SnapAfterBoundedFailures ==
    [][solver_kind = "sgvc" =>
          /\ (pc' = "sgvc_snap" /\ pc \notin {"sgvc_snap", "sgvc_snap_ret"}) =>
                \/ pc = "sgvc_cons" /\ is_over
                \/ /\ pc = "sgvc_ret"
                   /\ ~CorrectGuessStep
                   /\ \/ WrongGuessStep /\ wrong_counter' = 3
                      \/ returned = <<ErrorReturn>> /\ error_counter' = 2
                      \/ returned = <<NoneReturn>> /\ attempt = max_retries
          /\ (pc = "sgvc_ret" /\ WrongGuessStep) =>
                /\ wrong_counter' = wrong_counter + 1
                /\ wrong_counter' < 3 => pc' = "sgvc_cons"
          /\ (pc = "sgvc_ret" /\ CorrectGuessStep) =>
                wrong_counter' = 0 /\ pc' = "sgvc_cons"
          /\ (pc = "sgvc_ret" /\ ~WrongGuessStep /\ ~CorrectGuessStep) =>
                wrong_counter' = wrong_counter
          /\ (pc = "sgvc_snap_ret" /\ WrongGuessStep) => pc' = "sgvc_snap"
          /\ (pc = "sgvc_snap_ret" /\ CorrectGuessStep) =>
                pc' = "sgvc_outer" /\ sgvc'.snap_correct
          /\ (pc = "sgvc_snap" /\ pc' = "sgvc_outer") => (is_over \/ sgvc.snap_correct)
          /\ (pc = "sgvc_outer" /\ ~is_over) => pc' = "sgvc_cons"
          /\ pc' = "sgvc_snap_guess" => (pc = "sgvc_snap" /\ ~is_over /\ ~sgvc.snap_correct)]_vars

\* a negotiation turn begins after a snap phase that followed three wrong
\* guesses in a row and ended with a correct snap guess
C30_Witness ==
    /\ pc = "sgvc_cons"
    /\ current_strikes = 3
    /\ metrics.failed_guesses = 3
    /\ Len(sgvc.sorted_failed_guesses) = 3
    /\ Len(categories) = Len(og_groups) - 1
    /\ wrong_counter = 0
    /\ error_counter = 0
    /\ sgvc.snap_correct

-----------------------------------------------------------------------------
(* Properties of the locals of Solver.play *)

\* what one step of Solver.play does to previous_guesses
PreviousGuessesStep ==
    solver_kind \in SolverKinds =>
        IF pc = "play_body" /\ ~last'.raised /\ last'.ret = <<>>
        THEN /\ previous_guesses' = previous_guesses \cup {last'.words}
             /\ pc' = "play_while"
        ELSE previous_guesses' = previous_guesses

\* C31: in Solver.play previous_guesses is empty at the first call of guess,
\* every guess the game rejects is added to it before the next call of guess,
\* and nothing else changes it (a correct guess, the loop test and a raised
\* GameOverException leave it as it was): at each call of guess it is the set
\* of the groups submitted earlier in the play-through and rejected.
C31_PreviousGuessesAreTheRejected ==
    (solver_kind \in SolverKinds => previous_guesses = {}) /\ [][PreviousGuessesStep]_vars

\* guess is called after one correct guess and the same wrong guess made twice
C31_Witness ==
    /\ solver_kind \in SolverKinds
    /\ pc = "play_body"
    /\ previous_guesses = {<<"HAIL", "RAIN", "SLEET", "KAYAK">>}
    /\ metrics.failed_guesses = 2
    /\ Len(metrics.solve_order) = 1

-----------------------------------------------------------------------------
(* Properties of Endpoint.respond *)

\* a reply that says the rate limit is reached and when to come back
RateLimited(reply) ==
    /\ reply.json /\ reply.error
    /\ \/ /\ HasHeader(reply, "retry-after")
          /\ int(HeaderValue(reply, "retry-after")) # <<>>
       \/ /\ ~HasHeader(reply, "retry-after")
          /\ HasHeader(reply, "x-ratelimit-reset-requests")
          /\ ParseResetTime(HeaderValue(reply, "x-ratelimit-reset-requests")) # <<>>
       \/ /\ ~HasHeader(reply, "retry-after")
          /\ ~HasHeader(reply, "x-ratelimit-reset-requests")
          /\ HasHeader(reply, "x-ratelimit-reset-tokens")
          /\ ParseResetTime(HeaderValue(reply, "x-ratelimit-reset-tokens")) # <<>>

\* C32: a call of respond never ends on a rate-limited reply: it posts the
\* same request again (same message, system prompt and temperature), so a
\* call that has ended has ended on a reply that is not rate-limited; what it
\* returns is the content of a completion, the token usage is added to the
\* metrics once for the call, and the round counter of the negotiation is
\* left as it was.
C32_RateLimitIsRetriedTransparently ==
    solver_kind = "endpoint" =>
        /\ \A i \in DOMAIN endpoint.requests : endpoint.requests[i] = endpoint.requests[1]
        /\ endpoint.pc # "respond" =>
              ~RateLimited(endpoint.replies[Len(endpoint.replies)])
        /\ endpoint.pc = "returned" =>
              /\ returned = <<Returns("content")>>
              /\ endpoint.replies[Len(endpoint.replies)].choices
              /\ endpoint.tokens_used = IF endpoint.with_metrics THEN add_tokens(<<>>, 40, 10) ELSE <<>>
        /\ endpoint.pc # "returned" => endpoint.tokens_used = <<>>

-----------------------------------------------------------------------------
(* Properties of the three roles of the RSA reasoner *)

\* C33: a call of RSASolver.guess on a bank of at least group_size words ends,
\* whatever the speaker and the two listeners reply (an empty reply
\* included), by returning one of the groups it enumerated, after it has
\* evaluated every group of the bank and pushed a cost for each.
C33_SearchCompletesForEveryReply ==
    (RsaLoopOver /\ pc # "rsa_pop") =>
        /\ pc = "rsa_return"
        /\ ~returned[1].raised
        /\ \E i \in DOMAIN rsa.proposed : returned[1].value = rsa.proposed[i]
        /\ Len(rsa.proposed) = Binomial(Len(rsa.word_bank), rsa.group_size)
        /\ Len(rsa.error_heap) + 1 = Len(rsa.proposed)

\* the score the speaker gives a description: the number of words the literal
\* listener selects for it that are words of the group
SpeakerScore(i) ==
    Cardinality(ToSet(split(rsa.l0[split(rsa.response)[i]])) \cap ToSet(rsa.words))

\* C34: choose_categories returns the description whose literal-listener
\* answer shares the most words with the group, and of several such
\* descriptions the one that comes first in the speaker's reply.
C34_SpeakerKeepsBestDescription ==
    (solver_kind = "speaker" /\ pc # "choose_categories") =>
        /\ pc = "choose_categories_return"
        /\ \E i \in DOMAIN split(rsa.response) :
             /\ returned = <<Returns(<<split(rsa.response)[i]>>)>>
             /\ \A j \in DOMAIN split(rsa.response) :
                  /\ SpeakerScore(j) <= SpeakerScore(i)
                  /\ SpeakerScore(j) = SpeakerScore(i) => i <= j

-----------------------------------------------------------------------------
(* Properties of the running mean *)

\* the sum of the similarities of the calls, in halves
RECURSIVE SumOfHalves(_)
SumOfHalves(calls) ==
    IF calls = <<>> THEN 0
    ELSE (2 * calls[1].x[1]) \div calls[1].x[2] + SumOfHalves(Tail(calls))

\* every call of cosine_similarity_category so far followed an add_solve that
\* recorded a new solve: the i-th call found i solves
EachCallFollowsNewSolve ==
    \A i \in DOMAIN returned : returned[i].k = i

\* C35: when every call of cosine_similarity_category so far followed an
\* add_solve that recorded a new solve, no call divided by 0, and after the
\* call for the k-th solve category_similarity is the arithmetic mean of the
\* k similarities computed so far.
C35_RunningMeanIsArithmeticMean ==
    (pc = "scoring" /\ EachCallFollowsNewSolve) =>
        /\ \A i \in DOMAIN returned : ~returned[i].raised /\ returned[i].k > 0
        /\ (returned # <<>> /\ Len(metrics.solve_order) = Len(returned)) =>
              metrics.category_similarity = Lowest(<<SumOfHalves(returned), 2 * Len(returned)>>)

\* three solves, each followed by its call, with similarities 1, 1/2 and 0
C35_Witness ==
    /\ pc = "scoring"
    /\ EachCallFollowsNewSolve
    /\ Len(metrics.solve_order) = 3
    /\ Len(returned) = 3
    /\ <<returned[1].x, returned[2].x, returned[3].x>> = << <<1, 1>>, <<1, 2>>, <<0, 1>> >>
    /\ metrics.category_similarity = <<1, 2>>

-----------------------------------------------------------------------------
(* Properties of Metrics.add_solve *)

\* C36: after any sequence of add_solve calls, solve_order holds no level
\* twice, a level is in solve_order exactly when its flag in solves is true,
\* points is points_per_correct times the number of levels in solve_order,
\* solve_rate is 100 times that number over total_levels and lies between 0
\* and 100, and add_solve of a level that is already recorded changes nothing.
C36_AddSolveIdempotentPerLevel ==
    /\ \A i, j \in DOMAIN metrics.solve_order :
         metrics.solve_order[i] = metrics.solve_order[j] => i = j
    /\ \A level \in 0..(total_levels - 1) :
         /\ metrics.solves[level + 1] <=> level \in ToSet(metrics.solve_order)
         /\ metrics.solves[level + 1] => add_solve(metrics, level) = metrics
    /\ ToSet(metrics.solve_order) \subseteq 0..(total_levels - 1)
    /\ metrics.points = points_per_correct * Len(metrics.solve_order)
    /\ solve_rate(metrics) * total_levels = 100 * Len(metrics.solve_order)
    /\ 0 <= solve_rate(metrics) /\ solve_rate(metrics) <= 100

\* the four levels recorded, level 2 first, and 20 points
C36_Witness ==
    /\ pc = "idle"
    /\ metrics.solve_order = <<2, 0, 3, 1>>
    /\ metrics.points = 20
    /\ solve_rate(metrics) = 100

-----------------------------------------------------------------------------
(* Properties of the Metrics of a play-through against its game *)

\* the Metrics and the game agree
MetricsMatchGame ==
    /\ metrics.failed_guesses = current_strikes - starting_strikes
    /\ \A i \in DOMAIN og_groups : metrics.solves[i] = solved_categories[i]
    /\ \A i \in DOMAIN og_groups : solved_categories[i] <=> (i - 1) \in ToSet(metrics.solve_order)
    /\ Len(metrics.solve_order) = Len(og_groups) - Len(categories)

\* what a step of Solver.play does to solve_order and to the end of play
SolveOrderStep ==
    solver_kind \in SolverKinds =>
        /\ IF Len(categories') < Len(categories)
           THEN \E i \in DOMAIN og_groups :
                   /\ og_groups[i] \in ToSet(categories) \ ToSet(categories')
                   /\ metrics'.solve_order = Append(metrics.solve_order, i - 1)
           ELSE metrics'.solve_order = metrics.solve_order
        /\ pc' = "play_return" => MetricsMatchGame'

\* C37: when Solver.play returns, on a game it was handed freshly
\* constructed, metrics.failed_guesses is current_strikes less the starting
\* strikes, metrics.solves[i] is solved_categories[i] for every index i of
\* the original categories, and solve_order lists the original indices of
\* the removed categories in the order of their removal: each removal
\* appends the index of the category removed, and nothing else changes it.
C37_MetricsAgreeWithGame == [][SolveOrderStep]_vars

\* play has returned from the daily board with the third category removed
\* first, then the first, and three strikes after one starting strike
C37_Witness ==
    /\ solver_kind \in SolverKinds
    /\ pc = "play_return"
    /\ og_groups = DailyBoard
    /\ metrics.solve_order = <<2, 0>>
    /\ starting_strikes = 1
    /\ current_strikes = 3
    /\ metrics.failed_guesses = 2

\* the moves between states that a full round of StateFlowGame.run makes
RoundOrder ==
    {<<"INITIALIZATION", "CATEGORY_GENERATION">>,
     <<"CATEGORY_GENERATION", "WORD_PREDICTION">>,
     <<"WORD_PREDICTION", "EVALUATION">>,
     <<"EVALUATION", "CATEGORY_GENERATION">>,
     <<"EVALUATION", "TERMINATION">>}

\* run has nothing left to play for: the strikes are used up, or no
\* category or no word remains
FlowExhausted ==
    \/ flow.strikes >= flow.max_strikes
    \/ categories = <<>>
    \/ flow.remaining_words = <<>>

\* what a turn of the loop of run does when it is EVALUATION's: it ends the
\* run exactly when nothing is left to play for, and it either takes the
\* selected category, and no other, out of the game or adds one strike
EvaluationStep ==
    (solver_kind = "stateflow" /\ flow.state = "EVALUATION") =>
        /\ flow'.state = "TERMINATION" <=> FlowExhausted'
        /\ \/ /\ \E i \in DOMAIN categories :
                   /\ categories[i].members = flow.current_candidate_words
                   /\ categories' = RemoveAt(categories, i)
              /\ flow'.strikes = flow.strikes
           \/ /\ categories' = categories
              /\ flow'.strikes = flow.strikes + 1

\* the moves of RoundOrder and no other
RoundOrderStep ==
    solver_kind = "stateflow" =>
        /\ flow'.state # flow.state => <<flow.state, flow'.state>> \in RoundOrder
        /\ EvaluationStep

\* the moves of RoundOrder, and the one from CATEGORY_GENERATION to
\* TERMINATION, which is made when the game has no category and only before
\* anything was played
RoundOrGiveUpStep ==
    solver_kind = "stateflow" =>
        /\ flow'.state # flow.state =>
              \/ <<flow.state, flow'.state>> \in RoundOrder
              \/ /\ <<flow.state, flow'.state>> = <<"CATEGORY_GENERATION", "TERMINATION">>
                 /\ categories = <<>>
                 /\ flow.strikes = 0
                 /\ metrics = Metrics
        /\ flow.state = "CATEGORY_GENERATION" =>
              (flow'.state = "TERMINATION" <=> categories = <<>>)
        /\ EvaluationStep

\* the strikes stay within max_strikes, and a run that has ended has
\* nothing left to play for
FlowBounded ==
    solver_kind = "stateflow" =>
        /\ flow.strikes <= flow.max_strikes
        /\ flow.max_strikes = 3
        /\ flow.state = "TERMINATION" => FlowExhausted

\* C38 as stated: StateFlowGame.run moves through its states only in the
\* order INITIALIZATION -> CATEGORY_GENERATION -> WORD_PREDICTION ->
\* EVALUATION -> (CATEGORY_GENERATION | TERMINATION); it is in TERMINATION
\* only with strikes at max_strikes (3) or no category or word remaining, an
\* EVALUATION ends the run exactly then, strikes never exceed max_strikes,
\* and each EVALUATION either removes exactly the selected category or adds
\* exactly one strike.
C38_StatesOnlyInRoundOrder == FlowBounded /\ [][RoundOrderStep]_vars

\* C38, amended: the same, with one more move: CATEGORY_GENERATION goes to
\* TERMINATION, without a WORD_PREDICTION or an EVALUATION, exactly when the
\* game has no category, which is the case only in the first
\* CATEGORY_GENERATION of a run on a game that was handed over with none.
C38_RoundOrderOrGiveUp == FlowBounded /\ [][RoundOrGiveUpStep]_vars

\* a run on the daily board has ended on its third strike after two
\* categories were taken out
C38_Witness ==
    /\ solver_kind = "stateflow"
    /\ og_groups = DailyBoard
    /\ flow.state = "TERMINATION"
    /\ flow.strikes = flow.max_strikes
    /\ Len(metrics.solve_order) = 2
    /\ Len(categories) = Len(og_groups) - 2

=============================================================================
